---- MODULE Spec2Model ----
\* A model of klauspost/doproxy: the round-robin balancer (server/loadbalancing.go),
\* the backend health monitor (server/backend.go) and the reverse proxy with its
\* hot-reload paths (server/proxy.go, server/config.go, server/server.go).
EXTENDS Integers, Sequences, FiniteSets, TLC

\* ------------------------------------------------------------------ bounds
MaxBackends == 3   \* largest inventory of the round-robin model
MaxCalls == 7      \* completed Backend() calls that are counted
MaxScan == 5       \* loop iterations of one Backend() call that are followed
MaxFailures == 8   \* consecutive failed health probes that are followed
MaxReq == 1        \* requests in ServeHTTP at the same time
MaxReloads == 1    \* configuration reload attempts
MaxLoads == 1      \* inventory events that load the file
MaxCloses == 2     \* backend.Close() calls on one backend
MaxSavers == 2     \* concurrent callers of Inventory.SaveDroplets
MaxSwaps == 2      \* SetBackends calls completed while the watchers are followed
MaxCallers == 2    \* goroutines inside statRT.RoundTrip of one backend at the same time
MaxDispatch == 3   \* RoundTrip calls dispatched on that backend
MaxCycles == 2     \* monitor cycles that fold that backend's window
MaxDur == 1        \* longest time (in clock ticks) a dispatched request takes
MaxWs == 2         \* websocket upgrades in ServeHTTP at the same time
MaxInv == 2        \* largest inventory Inventory.AddBackend is followed to
MaxID == 2         \* droplet IDs are 1..MaxID
MaxStarted == 3    \* latest droplet start time, in clock ticks
TicksPerMs == 2    \* clock ticks in a millisecond
MaxEvents == 2
MaxClosers == 3
MaxConns == 2      \* largest in-flight count of a backend of the least-connections model

Nil == -1          \* a nil Backend / nil LoadBalancer

VARIABLES
  \* --- round-robin balancer (roundRobin, lbBase, Inventory)
  healthy,      \* r.inv.backends as the sequence of the backends' Stats.Healthy
  next,         \* roundRobin.next
  first,        \* the local `first` of a running Backend() call
  rrPc,         \* "idle" | "loop" (inside Backend(), r.mu held) | "panic"
  ret,          \* what the last completed Backend() returned: a 0-based index or Nil
  examined,     \* history: backends examined by the running/last call
  calls,        \* history: completed Backend() calls
  stayedHealthy,   \* history: no backend has been unhealthy since construction
  stayedUnhealthy, \* history: every backend has been unhealthy since the call began
  quiet            \* history: no backend's health has changed since the last call began

rrVars == <<healthy, next, first, rrPc, ret, examined, calls, stayedHealthy,
            stayedUnhealthy, quiet>>

VARIABLES
  \* --- least-connections balancer (leastConn, lbBase, Inventory)
  lcHealthy,    \* r.inv.backends as the sequence of the backends' Healthy()
  lcConns,      \* the same backends' Connections()
  lcPc,         \* "idle" | "returned" (Backend() has returned and nothing changed since)
  lcRet         \* what that Backend() returned: [kind, idx, next]

lcVars == <<lcHealthy, lcConns, lcPc, lcRet>>

VARIABLES
  \* --- Inventory.SaveDroplets and the process-wide shutdown coordinator
  svStage,      \* the process: "running" | "requested" (shutdown has begun) | "exited"
  svTimedOut,   \* the shutdown timeout (one second) has elapsed
  svLocks,      \* shutdown locks granted and not released
  savePc,       \* per caller: "idle" | "locked" | "marshalled" | "created" | "returned"
  saveErr,      \* per caller: the error SaveDroplets returned, "" for nil
  fileState,    \* the target file: "absent" | "old" | "truncated" | "written"
  svWaited      \* history: a lock was held when shutdown began

svVars == <<svStage, svTimedOut, svLocks, savePc, saveErr, fileState, svWaited>>

VARIABLES
  \* --- the two file watchers, the installed balancer's monitors, shutdown
  stStage,      \* the process: "running" | "first" (first-stage notifiers notified)
  stCfg,        \* config watcher goroutine: "select" | "swapping" | "exited"
  stInv,        \* inventory watcher goroutine: "select" | "swapping" | "exited"
  stMons,       \* the monitors of the installed balancer's backends:
                \* "wait" | "stopped" (after <-end) | "exited" (after <-exit)
  stIdx,        \* inside SetBackends: the backend Inventory.Close has come to
  stNew,        \* inside SetBackends: the size of the new balancer's inventory
  stSwaps,      \* history: SetBackends calls completed
  stLastBy      \* history: the watcher the last handler call came from

stVars == <<stStage, stCfg, stInv, stMons, stIdx, stNew, stSwaps, stLastBy>>

VARIABLES
  \* --- one backend's instrumented transport (statRT) and the monitor's fold
  statRT,           \* statRT: [running, requests, errors, latencySum]
  rtCall,       \* per caller of RoundTrip: [pc, o, resp, err]; pc is "idle" |
                \* "inflight" (s.rt.RoundTrip running) | "returned"
  rtDispatched, \* history: RoundTrip calls dispatched
  rtDone,       \* history: [requests, errors, latencySum] summed over completed calls
  rtFolded,     \* history: the same, summed over what the monitor's cycles read
  rtCycles      \* history: monitor cycles completed

rtVars == <<statRT, rtCall, rtDispatched, rtDone, rtFolded, rtCycles>>

VARIABLES
  \* --- ServeHTTP's websocket branch
  ws            \* per upgrade request: [pc, a, b, toA, toB, errc, eofA, eofB, status]
                \* pc: "start" | "hijacked" | "dialled" | "relay" | "returned"
                \* a, b: the client and the backend connection, "none" | "open" | "closed"
                \* toA, toB: the goroutines cp(a, b) and cp(b, a), "none" | "running" | "done"
                \* errc: values buffered in errc; eofA, eofB: that peer has closed

wsVars == <<ws>>

VARIABLES
  \* --- one Inventory and its file
  ivBackends,   \* Inventory.backends: a sequence of [kind, Droplet, mon]
  ivHealthOff,  \* Inventory.bec.DisableHealth
  ivFile,       \* the inventory file: [kind, recs], kind "absent" | "garbage" | "toml"
  ivAtSave,     \* history: the inventory ([kind, Droplet] of each backend) at the
                \* SaveDroplets that made the file what it is
  ivLoaded,     \* what ReadInventory returned, if it was the last call: [err, backends]
  ivOp,         \* history: the last call, [op, id, err, made, started]
  ivGone        \* history: the backends that call took out of the inventory

ivVars == <<ivBackends, ivHealthOff, ivFile, ivAtSave, ivLoaded, ivOp, ivGone>>

VARIABLES
  \* --- concurrent callers of roundRobin.Backend over healthy backends
  ccN,          \* len(r.inv.backends)
  ccK,          \* the number of goroutines that call Backend()
  ccNext,       \* roundRobin.next
  ccMu,         \* r.mu: 0 when free, else the caller that holds it
  ccCall,       \* per caller: [pc, first, ret]; pc is "idle" | "locked" (r.mu
                \* taken) | "read" (first := r.next done) | "returned"
  ccStart       \* history: r.next before the first call

ccVars == <<ccN, ccK, ccNext, ccMu, ccCall, ccStart>>

VARIABLES
  \* --- the locks of one backend, its balancer, its inventory and the handler
  lkPc,         \* per goroutine: the instruction of its code it has come to
  lkHeld,       \* per goroutine: the locks it holds, as [mu, mode]
  lkWant,       \* per goroutine: the mutex whose Lock() it is blocked in, or ""
  lkCycles,     \* history: monitor cycles begun
  lkStopped     \* the monitor has taken the stop request and returned

lkVars == <<lkPc, lkHeld, lkWant, lkCycles, lkStopped>>

VARIABLES
  \* --- the inventory watcher and the files it is told about
  wtFile,          \* MonitorInventory's `file`: the path it was started with
  wtConfigPath,    \* s.Config.InventoryFile
  wtExists,        \* the paths at which a file exists
  wtWatched,       \* the paths the fsnotify watcher holds a watch for
  wtEvents,        \* watcher.Events: events not yet received, each with the
                   \* inventory path configured when it arose (history)
  wtInstalledFrom, \* history: the file the handler's backends were read from
  wtLast           \* history: what the watcher's last step did with its event

wtVars == <<wtFile, wtConfigPath, wtExists, wtWatched, wtEvents, wtInstalledFrom, wtLast>>

VARIABLES
  \* --- one backend closed by several goroutines
  clField,      \* b.closeMonitor: "chan" or "nil"
  clChan,       \* the channel newBackend made: "open" or "closed"
  clMon,        \* the monitor goroutine: "select", "cycle" or "returned"
  clPc,         \* per caller of Close: where it is
  clOn,         \* per caller: the channel value its send was started on
  clStops       \* history: how often the monitor took a stop request

clVars == <<clField, clChan, clMon, clPc, clOn, clStops>>

VARIABLES
  \* --- round robin over an inventory that Remove shrinks meanwhile
  rmBackends,   \* i.backends: the IDs of the backends, in order
  rmNext,       \* r.next
  rmPc,         \* the Backend() call: "idle", "indexing", "returned", "panicked"
  rmNi,         \* the call's ni
  rmRet,        \* what the call returned (an ID), Nil before
  rmGone,       \* history: the IDs Remove has taken out
  rmGoneAtCall  \* history: rmGone when the call began

rmVars == <<rmBackends, rmNext, rmPc, rmNi, rmRet, rmGone, rmGoneAtCall>>

VARIABLES
  \* --- one backend and its monitor (backend, Stats)
  HealthURL,       \* backend.HealthURL: "" | "url" | "bad" (http.NewRequest rejects it)
  closeMonitor,    \* backend.closeMonitor: "nil" | "chan"
  Healthy,         \* backend.Stats.Healthy
  healthFailures,  \* backend.Stats.healthFailures
  monPc,           \* startMonitor: "none" | "wait" | "probing" | "stopped" (after
                   \* <-end) | "exited" (after <-exit) | "panic"
  closePc,         \* backend.Close: "none" | "sending" (b.closeMonitor <- c) | "acked"
  stage,           \* the process: "running" | "first" (first-stage shutdown notified)
  closeCalls,      \* history: Close() calls made
  lastOutcome,     \* history: what the last health probe answered
  wasHealthy,      \* history: Stats.Healthy when the last completed cycle began
  consec,          \* history: consecutive failed probes since the last success
  consecBefore,    \* history: the same, before the last probe
  cycled           \* history: the monitor has completed a cycle

monVars == <<HealthURL, closeMonitor, Healthy, healthFailures, monPc, closePc, stage,
             closeCalls, lastOutcome, wasHealthy, consec, consecBefore, cycled>>

VARIABLES
  \* --- server, reverse proxy and the objects they own
  sConfig,     \* Server.Config
  hConf,       \* ReverseProxy.conf
  hBalancer,   \* ReverseProxy.balancer: an index into lbs, or Nil
  lbs,         \* every LoadBalancer made so far: [Type, inv, next, closed]
  bes,         \* every Backend made so far: [HealthURL, Healthy, mon, running]
  reqs,        \* the requests in ServeHTTP
  updPc,       \* the config watcher: "idle" | "swap1" | "swap2" (in UpdateConfig,
               \* s.mu held) | "log" (ReadConfig has returned)
  pendingConf, \* UpdateConfig's `new`
  pendingLB,   \* UpdateConfig's `newLB`
  invPc,       \* MonitorInventory's goroutine: "select" | "loaded" | "log"
  invLoaded,   \* MonitorInventory's `inv` between ReadInventory and SetBackends
  reloads,     \* history: configurations UpdateConfig has accepted
  lastImmutable, \* history: the file being logged differed in an immutable field
  lastFailed,  \* history: the ReadConfig being logged returned an error
  loads,       \* history: inventories loaded after the first
  lastLoadOK,  \* history: FALSE while UpdateConfig's failed ReadInventory is being logged
  invLoadOK,   \* history: FALSE while MonitorInventory's failed ReadInventory is being logged
  hConfGen,    \* history: reloads whose SetConfig has run
  hLbGen       \* history: reloads whose SetBackends has run

pxVars == <<sConfig, hConf, hBalancer, lbs, bes, reqs, updPc, pendingConf, pendingLB,
            invPc, invLoaded, reloads, lastImmutable, lastFailed, loads, lastLoadOK, invLoadOK,
            hConfGen, hLbGen>>

vars == <<rrVars, monVars, pxVars, lcVars, svVars, stVars, rtVars, wsVars, ivVars, ccVars, lkVars, wtVars, clVars, rmVars>>

\* what the actions of one part leave alone
notRR == <<monVars, pxVars, lcVars, svVars, stVars, rtVars, wsVars, ivVars, ccVars, lkVars, wtVars, clVars, rmVars>>
notMon == <<rrVars, pxVars, lcVars, svVars, stVars, rtVars, wsVars, ivVars, ccVars, lkVars, wtVars, clVars, rmVars>>
notPx == <<rrVars, monVars, lcVars, svVars, stVars, rtVars, wsVars, ivVars, ccVars, lkVars, wtVars, clVars, rmVars>>
notLC == <<rrVars, monVars, pxVars, svVars, stVars, rtVars, wsVars, ivVars, ccVars, lkVars, wtVars, clVars, rmVars>>
notSv == <<rrVars, monVars, pxVars, lcVars, stVars, rtVars, wsVars, ivVars, ccVars, lkVars, wtVars, clVars, rmVars>>
notSt == <<rrVars, monVars, pxVars, lcVars, svVars, rtVars, wsVars, ivVars, ccVars, lkVars, wtVars, clVars, rmVars>>
notRt == <<rrVars, monVars, pxVars, lcVars, svVars, stVars, wsVars, ivVars, ccVars, lkVars, wtVars, clVars, rmVars>>
notWs == <<rrVars, monVars, pxVars, lcVars, svVars, stVars, rtVars, ivVars, ccVars, lkVars, wtVars, clVars, rmVars>>
notIv == <<rrVars, monVars, pxVars, lcVars, svVars, stVars, rtVars, wsVars, ccVars, lkVars, wtVars, clVars, rmVars>>
notCc == <<rrVars, monVars, pxVars, lcVars, svVars, stVars, rtVars, wsVars, ivVars, lkVars, wtVars, clVars, rmVars>>
notLk == <<rrVars, monVars, pxVars, lcVars, svVars, stVars, rtVars, wsVars, ivVars, ccVars, wtVars, clVars, rmVars>>
notWt == <<rrVars, monVars, pxVars, lcVars, svVars, stVars, rtVars, wsVars, ivVars, ccVars, lkVars, clVars, rmVars>>
notCl == <<rrVars, monVars, pxVars, lcVars, svVars, stVars, rtVars, wsVars, ivVars, ccVars, lkVars, wtVars, rmVars>>
notRm == <<rrVars, monVars, pxVars, lcVars, svVars, stVars, rtVars, wsVars, ivVars, ccVars, lkVars, wtVars, clVars>>

\* ============================================================ round robin
\* len(r.inv.backends)
N == Len(healthy)

\* ni := r.next % len(r.inv.backends)
NextIndexSkipping(n, len) == (n + 1) % len
NextIndex(n, len) == n % len

\* newRoundRobin: the cursor is the zero value; the inventory holds 0..MaxBackends
\* backends whose health is whatever their monitors (or a test) made it.
RRInit ==
  /\ healthy \in UNION {[1..n -> BOOLEAN] : n \in 0..MaxBackends}
  /\ next = 0
  /\ first = 0
  /\ rrPc = "idle"
  /\ ret = Nil
  /\ examined = 0
  /\ calls = 0
  /\ stayedHealthy = \A i \in 1..Len(healthy) : healthy[i]
  /\ stayedUnhealthy = FALSE
  /\ quiet = FALSE

\* roundRobin.Backend, entry: lock r.mu, first := r.next
RoundRobinBackendEnter ==
  /\ rrPc = "idle"
  /\ calls < MaxCalls
  /\ rrPc' = "loop"
  /\ first' = next
  /\ examined' = 0
  /\ stayedUnhealthy' = \A i \in 1..N : ~healthy[i]
  /\ quiet' = TRUE
  /\ UNCHANGED <<healthy, next, ret, calls, stayedHealthy>>
  /\ UNCHANGED notRR

\* roundRobin.Backend, one iteration of the for loop
RoundRobinBackendLoop ==
  /\ rrPc = "loop"
  /\ examined < MaxScan
  /\ IF N = 0
       THEN \* integer divide by zero: the goroutine panics
            /\ rrPc' = "panic"
            /\ UNCHANGED <<next, ret, examined, calls>>
       ELSE LET ni == NextIndex(next, N)
                nn == ni + 1
            IN /\ next' = nn
               /\ examined' = examined + 1
               /\ IF healthy[ni + 1]
                    THEN /\ ret' = ni
                         /\ rrPc' = "idle"
                         /\ calls' = calls + 1
                    ELSE IF nn = first
                           THEN /\ ret' = Nil
                                /\ rrPc' = "idle"
                                /\ calls' = calls + 1
                           ELSE UNCHANGED <<ret, rrPc, calls>>
  /\ UNCHANGED <<healthy, first, stayedHealthy, stayedUnhealthy, quiet>>
  /\ UNCHANGED notRR

\* A backend's monitor (or a test) changes Stats.Healthy of the backend at
\* position i; Backend() reads it through backend.Healthy() on each iteration.
SetHealthy(i, b) ==
  /\ i \in 1..N
  /\ healthy[i] # b
  /\ healthy' = [healthy EXCEPT ![i] = b]
  /\ stayedHealthy' = (stayedHealthy /\ b)
  /\ stayedUnhealthy' = (stayedUnhealthy /\ ~b)
  /\ quiet' = FALSE
  /\ UNCHANGED <<next, first, rrPc, ret, examined, calls>>
  /\ UNCHANGED notRR

RRNext ==
  \/ RoundRobinBackendEnter
  \/ RoundRobinBackendLoop
  \/ \E i \in 1..MaxBackends, b \in BOOLEAN : SetHealthy(i, b)

\* ======================================================= backend monitor
\* What a health probe (healthClient.Do) can answer: a network error, or a
\* response with a status code.
ProbeOutcomes ==
  {[err |-> TRUE, StatusCode |-> 0]}
    \cup {[err |-> FALSE, StatusCode |-> c] : c \in {200, 404, 499, 500, 503}}

NoProbe == [err |-> FALSE, StatusCode |-> 0]

\* A probe that failed, as the prober sees it (history only).
ObservedFailure(o) == o.err \/ o.StatusCode >= 500

\* healthCheck, after the probe: the new value of Stats.healthFailures
healthCheckLenient(o, f) ==
  IF o.err THEN f + 1
  ELSE IF o.StatusCode > 500 THEN f + 1 ELSE 0
healthCheck(o, f) ==
  IF o.err THEN f + 1
  ELSE IF o.StatusCode >= 500 THEN f + 1 ELSE 0

\* startMonitor: the two transitions of Stats.Healthy after healthCheck
HealthFailureLimit == 5
MarkUnhealthyEarly(h, f) == h /\ f >= HealthFailureLimit
MarkUnhealthy(h, f) == h /\ f > HealthFailureLimit
MarkHealthyAfterAnyProbe(h, f) == ~h
MarkHealthy(h, f) == ~h /\ f = 0

AfterCheck(h, f) ==
  LET h1 == IF MarkUnhealthy(h, f) THEN FALSE ELSE h
  IN IF MarkHealthy(h1, f) THEN TRUE ELSE h1

\* healthCheck: without a health URL no request is made
NeedsProbeAlways(url) == TRUE
NeedsProbe(url) == url # ""

\* newBackend: healthy at once only without a health URL; the monitor is started
\* unless health checks are disabled.
MonInit ==
  /\ HealthURL \in {"", "url", "bad"}
  /\ Healthy = (HealthURL = "")
  /\ healthFailures = 0
  /\ \E DisableHealth \in BOOLEAN :
       /\ closeMonitor = IF DisableHealth THEN "nil" ELSE "chan"
       /\ monPc = IF DisableHealth THEN "none" ELSE "wait"
  /\ closePc = "none"
  /\ stage = "running"
  /\ closeCalls = 0
  /\ lastOutcome = NoProbe
  /\ wasHealthy = Healthy
  /\ consec = 0
  /\ consecBefore = 0
  /\ cycled = FALSE

\* startMonitor, case <-ticker.C, up to the probe: the stats are folded, then
\* healthCheck runs; without a health URL it sets Healthy and returns, an
\* unparsable URL makes http.NewRequest return a nil request that is then
\* dereferenced, otherwise Stats.mu is released while the probe is in flight.
MonitorTick ==
  /\ monPc = "wait"
  /\ CASE ~NeedsProbe(HealthURL) ->
            /\ Healthy' = AfterCheck(TRUE, healthFailures)
            /\ monPc' = "wait"
            /\ cycled' = TRUE
       [] HealthURL = "bad" ->
            /\ monPc' = "panic"
            /\ UNCHANGED <<Healthy, cycled>>
       [] OTHER ->
            /\ monPc' = "probing"
            /\ UNCHANGED <<Healthy, cycled>>
  /\ UNCHANGED <<HealthURL, closeMonitor, healthFailures, closePc, stage, closeCalls,
                 lastOutcome, wasHealthy, consec, consecBefore>>
  /\ UNCHANGED notMon

\* healthCheck from the probe's answer on, and the rest of the cycle in
\* startMonitor (Stats.mu held again).
MonitorProbeDone(o) ==
  /\ monPc = "probing"
  /\ healthCheck(o, healthFailures) <= MaxFailures
  /\ healthFailures' = healthCheck(o, healthFailures)
  /\ Healthy' = AfterCheck(Healthy, healthFailures')
  /\ monPc' = "wait"
  /\ lastOutcome' = o
  /\ wasHealthy' = Healthy
  /\ consecBefore' = consec
  /\ consec' = IF ObservedFailure(o) THEN consec + 1 ELSE 0
  /\ cycled' = TRUE
  /\ UNCHANGED <<HealthURL, closeMonitor, closePc, stage, closeCalls>>
  /\ UNCHANGED notMon

\* backend.Close, entry: with b.closeMonitor nil it returns at once; otherwise
\* it makes the reply channel c and sends it on b.closeMonitor (unbuffered).
CloseBeginsAlways(cm) == "sending"
CloseBegins(cm) == IF cm = "nil" THEN "none" ELSE "sending"

BackendClose ==
  /\ closePc = "none"
  /\ monPc # "panic"
  /\ closeCalls < MaxCloses
  /\ closeCalls' = closeCalls + 1
  /\ closePc' = CloseBegins(closeMonitor)
  /\ UNCHANGED <<HealthURL, closeMonitor, Healthy, healthFailures, monPc, stage,
                 lastOutcome, wasHealthy, consec, consecBefore, cycled>>
  /\ UNCHANGED notMon

\* startMonitor, case n := <-end: the monitor's select, between two cycles,
\* takes the stop request; exit.Cancel(), close(n), return.
MonitorStop ==
  /\ monPc = "wait"
  /\ closePc = "sending"
  /\ monPc' = "stopped"
  /\ closePc' = "acked"
  /\ UNCHANGED <<HealthURL, closeMonitor, Healthy, healthFailures, stage, closeCalls,
                 lastOutcome, wasHealthy, consec, consecBefore, cycled>>
  /\ UNCHANGED notMon

\* backend.Close after <-c: close(b.closeMonitor), b.closeMonitor = nil, return
BackendCloseReturn ==
  /\ closePc = "acked"
  /\ closePc' = "none"
  /\ closeMonitor' = "nil"
  /\ UNCHANGED <<HealthURL, Healthy, healthFailures, monPc, stage, closeCalls,
                 lastOutcome, wasHealthy, consec, consecBefore, cycled>>
  /\ UNCHANGED notMon

\* The process is told to shut down: the first-stage notifiers are notified.
ShutdownFirst ==
  /\ stage = "running"
  /\ stage' = "first"
  /\ UNCHANGED <<HealthURL, closeMonitor, Healthy, healthFailures, monPc, closePc,
                 closeCalls, lastOutcome, wasHealthy, consec, consecBefore, cycled>>
  /\ UNCHANGED notMon

\* startMonitor, case n := <-exit: close(n), return; b.closeMonitor is left
\* as it is and nothing receives from it any more.
MonitorExit ==
  /\ monPc = "wait"
  /\ stage = "first"
  /\ monPc' = "exited"
  /\ UNCHANGED <<HealthURL, closeMonitor, Healthy, healthFailures, closePc, stage,
                 closeCalls, lastOutcome, wasHealthy, consec, consecBefore, cycled>>
  /\ UNCHANGED notMon

MonNext ==
  \/ MonitorTick
  \/ \E o \in ProbeOutcomes : MonitorProbeDone(o)
  \/ BackendClose
  \/ MonitorStop
  \/ BackendCloseReturn
  \/ ShutdownFirst
  \/ MonitorExit

\* ================================================ reverse proxy and reload
\* What the backend's transport (statRT.rt.RoundTrip) can answer.
TransportOutcomes ==
  {[err |-> TRUE, StatusCode |-> 0], [err |-> FALSE, StatusCode |-> 200],
   [err |-> FALSE, StatusCode |-> 500]}

\* What an inventory file can hold when it is read: something ReadInventory
\* cannot open or parse, or the health URLs of its droplets.
InventoryContents ==
  {[ok |-> FALSE, urls |-> <<>>]}
    \cup {[ok |-> TRUE, urls |-> u] : u \in {<<>>, <<"url">>, <<"", "url">>}}

\* The inventory file the server started with: one droplet without a health
\* URL and one with.
FirstInventory == [ok |-> TRUE, urls |-> <<"", "url">>]

\* The configuration the server started with (ReadConfig with init = true).
BaseConfig ==
  [Bind |-> ":80", Https |-> FALSE, CertFile |-> "cert.file", KeyFile |-> "key.file",
   WatchConfig |-> TRUE, AddForwarded |-> FALSE, LoadBalancing |-> "roundrobin",
   InventoryFile |-> "inv1", DisableHealth |-> FALSE]

\* Two configurations that differ in a field fixed at start-up (history only).
ImmutableDiffers(old, new) ==
  \/ old.Bind # new.Bind \/ old.Https # new.Https \/ old.CertFile # new.CertFile
  \/ old.KeyFile # new.KeyFile \/ old.WatchConfig # new.WatchConfig

\* NewLoadBalancer: the types it knows
KnownLB(t) == t \in {"roundrobin", "leastconn"}

\* Config.Validate (the backend, provisioning and provider sections carry no
\* state of this model and validate).
Validate(c) ==
  IF c.Https /\ c.CertFile = "" THEN "HTTPS requested, but no 'tls-cert-file' specified"
  ELSE IF c.Https /\ c.KeyFile = "" THEN "HTTPS requested, but no 'tls-key-file' specified"
  ELSE IF c.LoadBalancing = "" THEN "loadbalancing: No 'type' specified"
  ELSE IF ~KnownLB(c.LoadBalancing) THEN "Unknown load balancer type"
  ELSE ""

\* UpdateConfig: the fields that cannot change while the server runs
ImmutableCheckNoBind(old, new) ==
  IF old.WatchConfig # new.WatchConfig THEN "cannot modify 'watch-config'"
  ELSE IF old.Https # new.Https THEN "cannot modify 'https'"
  ELSE IF old.CertFile # new.CertFile THEN "cannot modify 'tls-certfile'"
  ELSE IF old.KeyFile # new.KeyFile THEN "cannot modify 'tls-keyfile'"
  ELSE ""
ImmutableCheck(old, new) ==
  IF old.WatchConfig # new.WatchConfig THEN "cannot modify 'watch-config'"
  ELSE IF old.Bind # new.Bind THEN "cannot modify 'bind'"
  ELSE IF old.Https # new.Https THEN "cannot modify 'https'"
  ELSE IF old.CertFile # new.CertFile THEN "cannot modify 'tls-certfile'"
  ELSE IF old.KeyFile # new.KeyFile THEN "cannot modify 'tls-keyfile'"
  ELSE ""

\* newBackend
newBackend(url, disableHealth) ==
  [HealthURL |-> url, Healthy |-> (url = ""),
   mon |-> IF disableHealth THEN "none" ELSE "running", running |-> 0]

\* ReadInventory: an error and nothing made, or one Backend per droplet appended
\* to the backends that exist (B) and the inventory that holds them.
ReadInventoryLax(B, content, disableHealth) ==
  [err |-> FALSE,
   bes |-> B \o [i \in 1..Len(content.urls) |-> newBackend(content.urls[i], disableHealth)],
   inv |-> [i \in 1..Len(content.urls) |-> Len(B) + i]]
ReadInventory(B, content, disableHealth) ==
  IF ~content.ok
    THEN [err |-> TRUE, bes |-> B, inv |-> <<>>]
    ELSE [err |-> FALSE,
          bes |-> B \o [i \in 1..Len(content.urls) |->
                          newBackend(content.urls[i], disableHealth)],
          inv |-> [i \in 1..Len(content.urls) |-> Len(B) + i]]

\* NewLoadBalancer: the balancer appended to those that exist (L)
NewLoadBalancer(L, t, inv) ==
  IF KnownLB(t)
    THEN [err |-> FALSE, lbs |-> Append(L, [Type |-> t, inv |-> inv, next |-> 0, closed |-> 0]),
          lb |-> Len(L) + 1]
    ELSE [err |-> TRUE, lbs |-> L, lb |-> Nil]

\* backend.Close
backendClose(b) == IF b.mon = "running" THEN [b EXCEPT !.mon = "stopped"] ELSE b

\* lbBase.Close and Inventory.Close: every backend of the inventory is closed
lbBaseCloseNothing(L, B, id) == [lbs |-> L, bes |-> B]
lbBaseClose(L, B, id) ==
  [lbs |-> [L EXCEPT ![id].closed = @ + 1],
   bes |-> [b \in 1..Len(B) |->
              IF \E i \in 1..Len(L[id].inv) : L[id].inv[i] = b
                THEN backendClose(B[b]) ELSE B[b]]]

\* ReverseProxy.SetBackends: what the handler's balancer, the balancers and the
\* backends are when it returns
SetBackendsKeepOld(h, L, B, balancer) ==
  IF h # Nil
    THEN [h |-> h] @@ lbBaseClose(L, B, h)
    ELSE [h |-> balancer, lbs |-> L, bes |-> B]
SetBackends(h, L, B, balancer) ==
  IF h # Nil
    THEN [h |-> balancer] @@ lbBaseClose(L, B, h)
    ELSE [h |-> balancer, lbs |-> L, bes |-> B]

\* roundRobin.Backend as one call over the health flags H: the loop of
\* RoundRobinBackendLoop run to its end. After Len(H) iterations without a
\* return the cursor only repeats values already compared with `first`: the
\* call goes on until a backend turns healthy ("spin").
RECURSIVE rrLoop(_, _, _, _)
rrLoop(H, nxt, frst, k) ==
  IF Len(H) = 0 THEN [kind |-> "panic", idx |-> Nil, next |-> nxt]
  ELSE IF k >= Len(H) THEN [kind |-> "spin", idx |-> Nil, next |-> nxt]
  ELSE LET ni == NextIndex(nxt, Len(H))
           nn == ni + 1
       IN IF H[ni + 1] THEN [kind |-> "ok", idx |-> ni, next |-> nn]
          ELSE IF nn = frst THEN [kind |-> "nil", idx |-> Nil, next |-> nn]
          ELSE rrLoop(H, nn, frst, k + 1)

\* leastConn.Backend: the scan from position i on, with the best so far
MaxInt32 == 2147483647
RECURSIVE lcScanLastOfTies(_, _, _, _, _)
lcScanLastOfTies(H, C, i, best, lowest) ==
  IF i > Len(H)
    THEN IF lowest = MaxInt32 THEN [kind |-> "nil", idx |-> Nil, next |-> 0]
         ELSE [kind |-> "ok", idx |-> best, next |-> 0]
    ELSE IF H[i] /\ C[i] <= lowest
           THEN lcScanLastOfTies(H, C, i + 1, i - 1, C[i])
           ELSE lcScanLastOfTies(H, C, i + 1, best, lowest)
RECURSIVE lcScanIgnoringHealth(_, _, _, _, _)
lcScanIgnoringHealth(H, C, i, best, lowest) ==
  IF i > Len(H)
    THEN IF lowest = MaxInt32 THEN [kind |-> "nil", idx |-> Nil, next |-> 0]
         ELSE [kind |-> "ok", idx |-> best, next |-> 0]
    ELSE IF C[i] < lowest
           THEN lcScanIgnoringHealth(H, C, i + 1, i - 1, C[i])
           ELSE lcScanIgnoringHealth(H, C, i + 1, best, lowest)
RECURSIVE lcScan(_, _, _, _, _)
lcScan(H, C, i, best, lowest) ==
  IF i > Len(H)
    THEN IF lowest = MaxInt32 THEN [kind |-> "nil", idx |-> Nil, next |-> 0]
         ELSE [kind |-> "ok", idx |-> best, next |-> 0]
    ELSE IF H[i] /\ C[i] < lowest
           THEN lcScan(H, C, i + 1, i - 1, C[i])
           ELSE lcScan(H, C, i + 1, best, lowest)

\* LoadBalancer.Backend of balancer lb over the backends B
Backend(lb, B) ==
  LET H == [i \in 1..Len(lb.inv) |-> B[lb.inv[i]].Healthy]
      C == [i \in 1..Len(lb.inv) |-> B[lb.inv[i]].running]
  IN IF lb.Type = "roundrobin"
       THEN rrLoop(H, lb.next, lb.next, 0)
       ELSE [lcScan(H, C, 1, Nil, MaxInt32) EXCEPT !.next = lb.next]

\* statRT.RoundTrip, from the transport's answer on: the in-flight gauge goes
\* down and the answer is handed on; the monitor's state plays no part.
RoundTripNeedsMonitor(b, o) ==
  [b |-> [b EXCEPT !.running = @ - 1],
   resp |-> IF b.mon = "stopped" THEN [err |-> TRUE, StatusCode |-> 0] ELSE o]
RoundTrip(b, o) == [b |-> [b EXCEPT !.running = @ - 1], resp |-> o]

\* UpdateConfig's two calls into the handler, in program order
SwapStepsReversed == <<"SetConfig", "SetBackends">>
SwapSteps == <<"SetBackends", "SetConfig">>

\* got: what Backend() returned to this request; picks: the Backend() calls
\* made for it; sends: the transport invocations made for it.
NewRequest ==
  [pc |-> "new", confGen |-> 0, lb |-> Nil, lbGen |-> 0, be |-> Nil, status |-> 0,
   net |-> NoProbe, viaStopped |-> FALSE, staleLB |-> FALSE,
   body |-> "", got |-> "none", picks |-> 0, sends |-> 0]

\* ServeHTTP, backend == nil
AnswerNoBackendBadGateway(req) ==
  [req EXCEPT !.pc = "done", !.status = 502, !.body = "No healthy backend available :("]
AnswerNoBackend(req) ==
  [req EXCEPT !.pc = "done", !.status = 503, !.body = "No healthy backend available :("]

\* ServeHTTP after backend.Transport().RoundTrip(r): an error is answered at
\* once, a response is copied to the client (status, then the body).
AfterRoundTripRetrying(req, resp) ==
  IF resp.err
    THEN [req EXCEPT !.pc = "conf"]
    ELSE [req EXCEPT !.pc = "done", !.status = resp.StatusCode, !.body = "upstream"]
AfterRoundTrip(req, resp) ==
  IF resp.err
    THEN [req EXCEPT !.pc = "done", !.status = 503, !.body = "Error processing request."]
    ELSE [req EXCEPT !.pc = "done", !.status = resp.StatusCode, !.body = "upstream"]

\* A request holds h.mu.RLock (and the balancer's lock) for as long as
\* Backend() does not return.
Spinning == \E r \in 1..MaxReq : reqs[r].pc = "spin"

\* A writer queued on h.mu behind such a reader keeps new readers out.
WriterWaiting == Spinning /\ (updPc \in {"swap1", "swap2"} \/ invPc = "loaded")

\* The file contents the config watcher can find: unparsable, or a Config that
\* differs from the live one in its immutable fields, its other fields, or both.
ConfigFiles(live) ==
  LET immutables ==
        {live, [live EXCEPT !.Bind = ":81"], [live EXCEPT !.Https = ~@],
         [live EXCEPT !.CertFile = "other.cert"], [live EXCEPT !.KeyFile = "other.key"],
         [live EXCEPT !.WatchConfig = ~@],
         [live EXCEPT !.Bind = ":81", !.Https = ~@, !.CertFile = "", !.KeyFile = "",
                      !.WatchConfig = ~@]}
      others(c) ==
        {[c EXCEPT !.LoadBalancing = t, !.InventoryFile = f] :
           t \in {"roundrobin", "leastconn", "", "bogus"}, f \in {"inv1", "inv2"}}
           \cup {[c EXCEPT !.AddForwarded = ~@]}
  IN {[parsed |-> FALSE, conf |-> live]}
       \cup {[parsed |-> TRUE, conf |-> c] : c \in others(live)}
       \cup {[parsed |-> TRUE, conf |-> c] : c \in immutables}
       \cup {[parsed |-> TRUE, conf |-> [c EXCEPT !.InventoryFile = "inv2"]] : c \in immutables}

\* Server.Run: the inventory is read, a balancer is made from it and handed to
\* the handler with the configuration; nothing has been served or reloaded.
PxInit ==
  /\ sConfig = BaseConfig
  /\ hConf = sConfig
  /\ LET inv == ReadInventory(<<>>, FirstInventory, sConfig.DisableHealth)
     IN /\ bes = inv.bes
        /\ lbs = NewLoadBalancer(<<>>, sConfig.LoadBalancing, inv.inv).lbs
  /\ hBalancer = 1
  /\ reqs = [r \in 1..MaxReq |-> NewRequest]
  /\ updPc = "idle"
  /\ pendingConf = sConfig
  /\ pendingLB = Nil
  /\ invPc = "select"
  /\ invLoaded = <<>>
  /\ reloads = 0
  /\ lastImmutable = FALSE
  /\ lastFailed = FALSE
  /\ loads = 0
  /\ lastLoadOK = TRUE
  /\ invLoadOK = TRUE
  /\ hConfGen = 0
  /\ hLbGen = 0

\* ServeHTTP, h.GetConfig(): the configuration is read under h.mu.RLock
ServeHTTPGetConfig(r) ==
  /\ reqs[r].pc = "new"
  /\ ~WriterWaiting
  /\ reqs' = [reqs EXCEPT ![r] = [@ EXCEPT !.pc = "conf", !.confGen = hConfGen]]
  /\ UNCHANGED <<sConfig, hConf, hBalancer, lbs, bes, updPc, pendingConf, pendingLB,
                 invPc, invLoaded, reloads, lastImmutable, lastFailed, loads, lastLoadOK, invLoadOK,
                 hConfGen, hLbGen>>
  /\ UNCHANGED notPx

\* ServeHTTP, h.GetBackend(): under a second h.mu.RLock the balancer is read and
\* its Backend() called; a nil balancer is dereferenced (the request panics), no
\* backend is answered with 503.
ServeHTTPGetBackend(r) ==
  /\ reqs[r].pc = "conf"
  /\ ~WriterWaiting
  /\ IF hBalancer = Nil
       THEN /\ reqs' = [reqs EXCEPT ![r].pc = "panic"]
            /\ UNCHANGED lbs
       ELSE LET lb == lbs[hBalancer]
                res == Backend(lb, bes)
                seen == [reqs[r] EXCEPT !.lb = hBalancer, !.lbGen = hLbGen,
                                        !.staleLB = (lb.closed > 0),
                                        !.got = IF res.kind \in {"ok", "nil"}
                                                  THEN res.kind ELSE "none",
                                        !.picks = @ + 1]
            IN /\ lbs' = [lbs EXCEPT ![hBalancer].next = res.next]
               /\ reqs' = [reqs EXCEPT ![r] =
                    CASE res.kind = "ok" ->
                           [seen EXCEPT !.pc = "chosen", !.be = lb.inv[res.idx + 1]]
                      [] res.kind = "nil" -> AnswerNoBackend(seen)
                      [] res.kind = "panic" -> [seen EXCEPT !.pc = "panic"]
                      [] OTHER -> [seen EXCEPT !.pc = "spin"]]
  /\ UNCHANGED <<sConfig, hConf, hBalancer, bes, updPc, pendingConf, pendingLB,
                 invPc, invLoaded, reloads, lastImmutable, lastFailed, loads, lastLoadOK, invLoadOK,
                 hConfGen, hLbGen>>
  /\ UNCHANGED notPx

\* roundRobin.Backend still looping when a backend of the inventory turns
\* healthy: the loop returns the healthy backend it comes to.
ServeHTTPSpinEnds(r, i) ==
  /\ reqs[r].pc = "spin"
  /\ i \in 1..Len(lbs[reqs[r].lb].inv)
  /\ bes[lbs[reqs[r].lb].inv[i]].Healthy
  /\ lbs' = [lbs EXCEPT ![reqs[r].lb].next = i]
  /\ reqs' = [reqs EXCEPT ![r] = [@ EXCEPT !.pc = "chosen", !.got = "ok",
                                            !.be = lbs[reqs[r].lb].inv[i]]]
  /\ UNCHANGED <<sConfig, hConf, hBalancer, bes, updPc, pendingConf, pendingLB,
                 invPc, invLoaded, reloads, lastImmutable, lastFailed, loads, lastLoadOK, invLoadOK,
                 hConfGen, hLbGen>>
  /\ UNCHANGED notPx

\* ServeHTTP, websocket branch: the client connection is hijacked, the backend
\* dialled, the request written and bytes relayed; the transport is not used.
ServeHTTPUpgrade(r, o) ==
  /\ reqs[r].pc = "chosen"
  /\ reqs' = [reqs EXCEPT ![r] = [@ EXCEPT !.pc = "done", !.status =
        CASE o = "cannot hijack" -> 500
          [] o = "hijack error" -> 500
          [] o = "dial error" -> 503
          [] o = "write error" -> 500
          [] OTHER -> 0,
        !.body = IF o = "relayed" THEN "" ELSE o]]
  /\ UNCHANGED <<sConfig, hConf, hBalancer, lbs, bes, updPc, pendingConf, pendingLB,
                 invPc, invLoaded, reloads, lastImmutable, lastFailed, loads, lastLoadOK, invLoadOK,
                 hConfGen, hLbGen>>
  /\ UNCHANGED notPx

\* ServeHTTP has returned (or its panic was recovered by the HTTP server); the
\* next request is accepted.
ServeHTTPReturn(r) ==
  /\ reqs[r].pc \in {"done", "panic"}
  /\ reqs' = [reqs EXCEPT ![r] = NewRequest]
  /\ UNCHANGED <<sConfig, hConf, hBalancer, lbs, bes, updPc, pendingConf, pendingLB,
                 invPc, invLoaded, reloads, lastImmutable, lastFailed, loads, lastLoadOK, invLoadOK,
                 hConfGen, hLbGen>>
  /\ UNCHANGED notPx

\* statRT.RoundTrip, up to the dispatch: the request counts as running
RoundTripBegin(r) ==
  /\ reqs[r].pc = "chosen"
  /\ bes' = [bes EXCEPT ![reqs[r].be].running = @ + 1]
  /\ reqs' = [reqs EXCEPT ![r] = [@ EXCEPT !.pc = "forwarding", !.sends = @ + 1]]
  /\ UNCHANGED <<sConfig, hConf, hBalancer, lbs, updPc, pendingConf, pendingLB,
                 invPc, invLoaded, reloads, lastImmutable, lastFailed, loads, lastLoadOK, invLoadOK,
                 hConfGen, hLbGen>>
  /\ UNCHANGED notPx

\* statRT.RoundTrip from the answer on, and the rest of ServeHTTP: a transport
\* error is answered with 503, a response is copied to the client.
RoundTripEnd(r, o) ==
  /\ reqs[r].pc = "forwarding"
  /\ LET b == reqs[r].be
         rt == RoundTrip(bes[b], o)
     IN /\ bes' = [bes EXCEPT ![b] = rt.b]
        /\ reqs' = [reqs EXCEPT ![r] =
              AfterRoundTrip([@ EXCEPT !.net = o, !.viaStopped = (bes[b].mon = "stopped")],
                             rt.resp)]
  /\ UNCHANGED <<sConfig, hConf, hBalancer, lbs, updPc, pendingConf, pendingLB,
                 invPc, invLoaded, reloads, lastImmutable, lastFailed, loads, lastLoadOK, invLoadOK,
                 hConfGen, hLbGen>>
  /\ UNCHANGED notPx

\* startMonitor of backend b, one cycle: Stats.Healthy is what the cycle leaves
\* (the probe protocol itself is MonitorTick and MonitorProbeDone).
MonitorCycle(b, h) ==
  /\ b \in 1..Len(bes)
  /\ bes[b].mon = "running"
  /\ bes[b].HealthURL # ""
  /\ bes[b].Healthy # h
  /\ bes' = [bes EXCEPT ![b].Healthy = h]
  /\ UNCHANGED <<sConfig, hConf, hBalancer, lbs, reqs, updPc, pendingConf, pendingLB,
                 invPc, invLoaded, reloads, lastImmutable, lastFailed, loads, lastLoadOK, invLoadOK,
                 hConfGen, hLbGen>>
  /\ UNCHANGED notPx

\* The config watcher's event: ReadConfig(file, false), that is ReadConfigFile
\* and UpdateConfig up to its first call into the handler, with s.mu taken. Any
\* error returns with nothing applied.
UpdateConfigBegin(cand) ==
  /\ sConfig.WatchConfig
  /\ updPc = "idle"
  /\ lastImmutable' = (cand.parsed /\ ImmutableDiffers(sConfig, cand.conf))
  /\ LET new == cand.conf
         pathChanged == sConfig.InventoryFile # new.InventoryFile
         early == IF ~cand.parsed THEN "cannot parse the configuration"
                  ELSE IF Validate(new) # "" THEN Validate(new)
                  ELSE ImmutableCheck(sConfig, new)
     IN IF early # ""
          THEN /\ lastFailed' = TRUE
               /\ updPc' = "log"
               /\ UNCHANGED <<bes, lbs, pendingConf, pendingLB, reloads, loads, lastLoadOK>>
          ELSE IF ~pathChanged
            THEN /\ reloads < MaxReloads
                 /\ reloads' = reloads + 1
                 /\ lastFailed' = FALSE
                 /\ updPc' = "swap1"
                 /\ pendingConf' = new
                 /\ pendingLB' = Nil
                 /\ UNCHANGED <<bes, lbs, loads, lastLoadOK>>
            ELSE \E content \in InventoryContents :
                   LET inv == ReadInventory(bes, content, new.DisableHealth)
                       nlb == NewLoadBalancer(lbs, sConfig.LoadBalancing, inv.inv)
                   IN /\ lastLoadOK' = content.ok
                      /\ IF inv.err
                           THEN /\ lastFailed' = TRUE
                                /\ updPc' = "log"
                                /\ UNCHANGED <<bes, lbs, pendingConf, pendingLB,
                                               reloads, loads>>
                           ELSE /\ reloads < MaxReloads
                                /\ loads < MaxLoads
                                /\ reloads' = reloads + 1
                                /\ loads' = loads + 1
                                /\ bes' = inv.bes
                                /\ lastFailed' = nlb.err
                                /\ IF nlb.err
                                     THEN /\ updPc' = "log"
                                          /\ UNCHANGED <<lbs, pendingConf, pendingLB>>
                                     ELSE /\ lbs' = nlb.lbs
                                          /\ updPc' = "swap1"
                                          /\ pendingConf' = new
                                          /\ pendingLB' = nlb.lb
  /\ UNCHANGED <<sConfig, hConf, hBalancer, reqs, invPc, invLoaded, invLoadOK,
                 hConfGen, hLbGen>>
  /\ UNCHANGED notPx

\* One of UpdateConfig's calls into the handler (h.mu.Lock held for the call):
\* SetBackends(newLB) or SetConfig(new).
HandlerSwap(step) ==
  IF step = "SetBackends"
    THEN LET sb == SetBackends(hBalancer, lbs, bes, pendingLB)
         IN /\ hBalancer' = sb.h
            /\ lbs' = sb.lbs
            /\ bes' = sb.bes
            /\ hLbGen' = hLbGen + 1
            /\ UNCHANGED <<hConf, hConfGen>>
    ELSE /\ hConf' = pendingConf
         /\ hConfGen' = hConfGen + 1
         /\ UNCHANGED <<hBalancer, lbs, bes, hLbGen>>

\* UpdateConfig: s.handler.SetBackends(newLB)
UpdateConfigFirstSwap ==
  /\ updPc = "swap1"
  /\ ~Spinning
  /\ HandlerSwap(SwapSteps[1])
  /\ updPc' = "swap2"
  /\ UNCHANGED <<sConfig, reqs, pendingConf, pendingLB, invPc, invLoaded, reloads,
                 lastImmutable, lastFailed, loads, lastLoadOK, invLoadOK>>
  /\ UNCHANGED notPx

\* UpdateConfig: s.handler.SetConfig(new), s.Config = new, s.mu released
UpdateConfigSecondSwap ==
  /\ updPc = "swap2"
  /\ ~Spinning
  /\ HandlerSwap(SwapSteps[2])
  /\ sConfig' = pendingConf
  /\ updPc' = "log"
  /\ pendingLB' = Nil
  /\ UNCHANGED <<reqs, pendingConf, invPc, invLoaded, reloads,
                 lastImmutable, lastFailed, loads, lastLoadOK, invLoadOK>>
  /\ UNCHANGED notPx

\* The config watcher logs what ReadConfig returned and waits for the next event.
ConfigEventLogged ==
  /\ updPc = "log"
  /\ updPc' = "idle"
  /\ lastFailed' = FALSE
  /\ lastImmutable' = FALSE
  /\ lastLoadOK' = TRUE
  /\ UNCHANGED <<sConfig, hConf, hBalancer, lbs, bes, reqs, pendingConf, pendingLB,
                 invPc, invLoaded, reloads, loads, invLoadOK, hConfGen, hLbGen>>
  /\ UNCHANGED notPx

\* MonitorInventory, an event on the watched file up to ReadInventory: a
\* Remove event is skipped; a file that cannot be loaded is logged and the
\* goroutine goes back to its select.
InventoryEvent(op, content) ==
  /\ invPc = "select"
  /\ updPc \in {"idle", "log"}
  /\ IF op = "Remove"
       THEN UNCHANGED <<bes, invPc, invLoaded, loads, invLoadOK>>
       ELSE LET inv == ReadInventory(bes, content, sConfig.DisableHealth)
            IN /\ invLoadOK' = content.ok
               /\ IF inv.err
                    THEN /\ invPc' = "log"
                         /\ UNCHANGED <<bes, invLoaded, loads>>
                    ELSE /\ loads < MaxLoads
                         /\ loads' = loads + 1
                         /\ bes' = inv.bes
                         /\ invLoaded' = inv.inv
                         /\ invPc' = "loaded"
  /\ UNCHANGED <<sConfig, hConf, hBalancer, lbs, reqs, updPc, pendingConf, pendingLB,
                 reloads, lastImmutable, lastFailed, lastLoadOK, hConfGen, hLbGen>>
  /\ UNCHANGED notPx

\* MonitorInventory, the rest of the event: under s.mu.RLock a balancer of the
\* live type is made over the loaded inventory and handed to SetBackends.
InventoryApply ==
  /\ invPc = "loaded"
  /\ updPc \in {"idle", "log"}
  /\ ~Spinning
  /\ LET nlb == NewLoadBalancer(lbs, sConfig.LoadBalancing, invLoaded)
         sb == SetBackends(hBalancer, nlb.lbs, bes, nlb.lb)
     IN IF nlb.err
          THEN UNCHANGED <<hBalancer, lbs, bes>>
          ELSE /\ hBalancer' = sb.h
               /\ lbs' = sb.lbs
               /\ bes' = sb.bes
  /\ invPc' = "log"
  /\ invLoaded' = <<>>
  /\ UNCHANGED <<sConfig, hConf, reqs, updPc, pendingConf, pendingLB, reloads,
                 lastImmutable, lastFailed, loads, lastLoadOK, invLoadOK, hConfGen, hLbGen>>
  /\ UNCHANGED notPx

\* MonitorInventory logs the outcome and waits for the next event.
InventoryEventLogged ==
  /\ invPc = "log"
  /\ invPc' = "select"
  /\ invLoadOK' = TRUE
  /\ UNCHANGED <<sConfig, hConf, hBalancer, lbs, bes, reqs, updPc, pendingConf,
                 pendingLB, invLoaded, reloads, lastImmutable, lastFailed, loads,
                 lastLoadOK, hConfGen, hLbGen>>
  /\ UNCHANGED notPx

PxNext ==
  \/ \E r \in 1..MaxReq : ServeHTTPGetConfig(r)
  \/ \E r \in 1..MaxReq : ServeHTTPGetBackend(r)
  \/ \E r \in 1..MaxReq, i \in 1..2 : ServeHTTPSpinEnds(r, i)
  \/ \E r \in 1..MaxReq,
        o \in {"cannot hijack", "hijack error", "dial error", "write error", "relayed"} :
       ServeHTTPUpgrade(r, o)
  \/ \E r \in 1..MaxReq : ServeHTTPReturn(r)
  \/ \E r \in 1..MaxReq : RoundTripBegin(r)
  \/ \E r \in 1..MaxReq, o \in TransportOutcomes : RoundTripEnd(r, o)
  \/ \E b \in 1..Len(bes), h \in BOOLEAN : MonitorCycle(b, h)
  \/ \E cand \in ConfigFiles(sConfig) : UpdateConfigBegin(cand)
  \/ UpdateConfigFirstSwap
  \/ UpdateConfigSecondSwap
  \/ ConfigEventLogged
  \/ \E op \in {"Write", "Rename", "Remove"}, content \in InventoryContents :
       InventoryEvent(op, content)
  \/ InventoryApply
  \/ InventoryEventLogged

\* ====================================================== least connections
\* newLeastConn over an inventory of 0..MaxBackends backends: nothing is in
\* flight; the backends' health is whatever their monitors made it.
LCInit ==
  /\ lcHealthy \in UNION {[1..n -> BOOLEAN] : n \in 0..MaxBackends}
  /\ lcConns = [i \in 1..Len(lcHealthy) |-> 0]
  /\ lcPc = "idle"
  /\ lcRet = [kind |-> "nil", idx |-> Nil, next |-> 0]

\* leastConn.Backend, with no change of health or in-flight counts during the
\* call: var best, lowest := math.MaxInt32, the scan, the return.
LeastConnBackend ==
  /\ lcPc = "idle"
  /\ lcRet' = lcScan(lcHealthy, lcConns, 1, Nil, MaxInt32)
  /\ lcPc' = "returned"
  /\ UNCHANGED <<lcHealthy, lcConns>>
  /\ UNCHANGED notLC

\* The monitor (or a test) changes Stats.Healthy of the backend at position i.
LCSetHealthy(i, b) ==
  /\ i \in 1..Len(lcHealthy)
  /\ lcHealthy[i] # b
  /\ lcHealthy' = [lcHealthy EXCEPT ![i] = b]
  /\ lcPc' = "idle"
  /\ UNCHANGED <<lcConns, lcRet>>
  /\ UNCHANGED notLC

\* statRT.RoundTrip on the backend at position i begins (d = 1) or ends
\* (d = -1): s.running++ / s.running--.
LCRunning(i, d) ==
  /\ i \in 1..Len(lcHealthy)
  /\ lcConns[i] + d \in 0..MaxConns
  /\ lcConns' = [lcConns EXCEPT ![i] = @ + d]
  /\ lcPc' = "idle"
  /\ UNCHANGED <<lcHealthy, lcRet>>
  /\ UNCHANGED notLC

LCNext ==
  \/ LeastConnBackend
  \/ \E i \in 1..MaxBackends, b \in BOOLEAN : LCSetHealthy(i, b)
  \/ \E i \in 1..MaxBackends, d \in {-1, 1} : LCRunning(i, d)

\* ============================================== saving and shutting down
\* doproxy's main sets the shutdown timeout to one second; a management
\* command or the server is running and the inventory file may exist.
SvInit ==
  /\ svStage = "running"
  /\ svTimedOut = FALSE
  /\ svLocks = 0
  /\ savePc = [p \in 1..MaxSavers |-> "idle"]
  /\ saveErr = [p \in 1..MaxSavers |-> ""]
  /\ fileState \in {"absent", "old"}
  /\ svWaited = FALSE

\* shutdown.Lock(): granted while shutdown has not begun
ShutdownLock == svStage = "running"

\* SaveDroplets, its first statement: with the lock granted it goes on (and
\* defers the Unlock), otherwise it returns the error at once.
SaveBeginsRegardless(granted) == "locked"
SaveBegins(granted) == IF granted THEN "locked" ELSE "returned"

\* The locks held once SaveDroplets has returned with err: the deferred
\* shutdown.Unlock() has run, on every path.
SaveReturnsLeakOnError(locks, err) == IF err = "" THEN locks - 1 ELSE locks
SaveReturns(locks, err) == locks - 1

SaveCall(p) ==
  /\ svStage # "exited"
  /\ savePc[p] = "idle"
  /\ savePc' = [savePc EXCEPT ![p] = SaveBegins(ShutdownLock)]
  /\ svLocks' = IF ShutdownLock THEN svLocks + 1 ELSE svLocks
  /\ saveErr' = [saveErr EXCEPT ![p] =
       IF ShutdownLock THEN "" ELSE "Unable to save inventory - server is shutting down."]
  /\ UNCHANGED <<svStage, svTimedOut, fileState, svWaited>>
  /\ UNCHANGED notSv

\* SaveDroplets: the droplets are collected and marshalled
SaveMarshal(p, ok) ==
  /\ svStage # "exited"
  /\ savePc[p] = "locked"
  /\ IF ok
       THEN /\ savePc' = [savePc EXCEPT ![p] = "marshalled"]
            /\ UNCHANGED <<svLocks, saveErr>>
       ELSE /\ savePc' = [savePc EXCEPT ![p] = "returned"]
            /\ saveErr' = [saveErr EXCEPT ![p] = "marshal"]
            /\ svLocks' = SaveReturns(svLocks, "marshal")
  /\ UNCHANGED <<svStage, svTimedOut, fileState, svWaited>>
  /\ UNCHANGED notSv

\* SaveDroplets: os.Create(file) creates or truncates the target
SaveCreate(p, ok) ==
  /\ svStage # "exited"
  /\ savePc[p] = "marshalled"
  /\ IF ok
       THEN /\ savePc' = [savePc EXCEPT ![p] = "created"]
            /\ fileState' = "truncated"
            /\ UNCHANGED <<svLocks, saveErr>>
       ELSE /\ savePc' = [savePc EXCEPT ![p] = "returned"]
            /\ saveErr' = [saveErr EXCEPT ![p] = "create"]
            /\ svLocks' = SaveReturns(svLocks, "create")
            /\ UNCHANGED fileState
  /\ UNCHANGED <<svStage, svTimedOut, svWaited>>
  /\ UNCHANGED notSv

\* SaveDroplets: f.Write(b), the deferred f.Close() and Unlock(), the return
SaveWrite(p, ok) ==
  /\ svStage # "exited"
  /\ savePc[p] = "created"
  /\ savePc' = [savePc EXCEPT ![p] = "returned"]
  /\ saveErr' = [saveErr EXCEPT ![p] = IF ok THEN "" ELSE "write"]
  /\ svLocks' = SaveReturns(svLocks, saveErr'[p])
  /\ fileState' = IF ok THEN "written" ELSE fileState
  /\ UNCHANGED <<svStage, svTimedOut, svWaited>>
  /\ UNCHANGED notSv

\* A signal arrives (shutdown.OnSignal): shutdown has begun; from now on Lock()
\* is refused and the coordinator waits for the granted locks.
ShutdownRequested ==
  /\ svStage = "running"
  /\ svStage' = "requested"
  /\ svWaited' = (svLocks > 0)
  /\ UNCHANGED <<svTimedOut, svLocks, savePc, saveErr, fileState>>
  /\ UNCHANGED notSv

\* The timeout set by shutdown.SetTimeout(time.Second) elapses
ShutdownTimeout ==
  /\ svStage = "requested"
  /\ ~svTimedOut
  /\ svTimedOut' = TRUE
  /\ UNCHANGED <<svStage, svLocks, savePc, saveErr, fileState, svWaited>>
  /\ UNCHANGED notSv

\* The process terminates: every granted lock has been released, or the
\* timeout has elapsed.
ProcessExit ==
  /\ svStage = "requested"
  /\ svLocks = 0 \/ svTimedOut
  /\ svStage' = "exited"
  /\ UNCHANGED <<svTimedOut, svLocks, savePc, saveErr, fileState, svWaited>>
  /\ UNCHANGED notSv

SvNext ==
  \/ \E p \in 1..MaxSavers : SaveCall(p)
  \/ \E p \in 1..MaxSavers, ok \in BOOLEAN : SaveMarshal(p, ok)
  \/ \E p \in 1..MaxSavers, ok \in BOOLEAN : SaveCreate(p, ok)
  \/ \E p \in 1..MaxSavers, ok \in BOOLEAN : SaveWrite(p, ok)
  \/ ShutdownRequested
  \/ ShutdownTimeout
  \/ ProcessExit

\* ============================================ the watchers and shutdown
\* Server.Run with watch-config on: both watchers sit in their select, the
\* first balancer's backends are monitored.
StInit ==
  /\ stStage = "running"
  /\ stCfg = "select"
  /\ stInv = "select"
  /\ stMons \in {[i \in 1..n |-> "wait"] : n \in 1..MaxBackends}
  /\ stIdx = 1
  /\ stNew = 0
  /\ stSwaps = 0
  /\ stLastBy = "none"

\* The first-stage notification is sent to every notifier made by
\* shutdown.First(): the watchers and the backends' monitors.
StFirstStage ==
  /\ stStage = "running"
  /\ stStage' = "first"
  /\ UNCHANGED <<stCfg, stInv, stMons, stIdx, stNew, stSwaps, stLastBy>>
  /\ UNCHANGED notSt

\* startMonitor of the backend at position i, case n := <-exit
StMonitorExit(i) ==
  /\ stStage = "first"
  /\ i \in 1..Len(stMons)
  /\ stMons[i] = "wait"
  /\ stMons' = [stMons EXCEPT ![i] = "exited"]
  /\ UNCHANGED <<stStage, stCfg, stInv, stIdx, stNew, stSwaps, stLastBy>>
  /\ UNCHANGED notSt

\* The config watcher takes a file event: ReadConfig returns an error
\* (applied = FALSE), or UpdateConfig comes to s.handler.SetBackends with a
\* balancer over n new backends (none when the inventory path is unchanged).
StConfigEvent(applied, n) ==
  /\ stCfg = "select"
  /\ stInv # "swapping"
  /\ IF applied
       THEN /\ stSwaps < MaxSwaps
            /\ stCfg' = "swapping"
            /\ stIdx' = 1
            /\ stNew' = n
       ELSE UNCHANGED <<stCfg, stIdx, stNew>>
  /\ UNCHANGED <<stStage, stInv, stMons, stSwaps, stLastBy>>
  /\ UNCHANGED notSt

\* The inventory watcher takes a file event: ReadInventory fails (loaded =
\* FALSE), or the goroutine comes to s.handler.SetBackends with a balancer
\* over the n backends read.
StInventoryEvent(loaded, n) ==
  /\ stInv = "select"
  /\ stCfg # "swapping"
  /\ IF loaded
       THEN /\ stSwaps < MaxSwaps
            /\ stInv' = "swapping"
            /\ stIdx' = 1
            /\ stNew' = n
       ELSE UNCHANGED <<stInv, stIdx, stNew>>
  /\ UNCHANGED <<stStage, stCfg, stMons, stSwaps, stLastBy>>
  /\ UNCHANGED notSt

\* SetBackends -> lbBase.Close -> Inventory.Close -> backend.Close of the next
\* backend: the stop request is taken by a monitor that is in its select; a
\* monitor that has returned through <-exit never takes it and Close stays in
\* its send.
StCloseBackend ==
  /\ stCfg = "swapping" \/ stInv = "swapping"
  /\ stIdx <= Len(stMons)
  /\ stMons[stIdx] = "wait"
  /\ stMons' = [stMons EXCEPT ![stIdx] = "stopped"]
  /\ stIdx' = stIdx + 1
  /\ UNCHANGED <<stStage, stCfg, stInv, stNew, stSwaps, stLastBy>>
  /\ UNCHANGED notSt

\* SetBackends: every backend closed, h.balancer = balancer; the watcher logs
\* and goes back to its select.
StSwapDone ==
  /\ stCfg = "swapping" \/ stInv = "swapping"
  /\ stIdx > Len(stMons)
  /\ stMons' = [i \in 1..stNew |-> "wait"]
  /\ stIdx' = 1
  /\ stNew' = 0
  /\ stSwaps' = stSwaps + 1
  /\ stLastBy' = IF stCfg = "swapping" THEN "config" ELSE "inventory"
  /\ stCfg' = IF stCfg = "swapping" THEN "select" ELSE stCfg
  /\ stInv' = IF stInv = "swapping" THEN "select" ELSE stInv
  /\ UNCHANGED stStage
  /\ UNCHANGED notSt

\* The config watcher's select takes case n := <-exit: close(n), return
StConfigWatcherExit ==
  /\ stStage = "first"
  /\ stCfg = "select"
  /\ stCfg' = "exited"
  /\ UNCHANGED <<stStage, stInv, stMons, stIdx, stNew, stSwaps, stLastBy>>
  /\ UNCHANGED notSt

\* The inventory watcher's select takes case n := <-exit: close(n), return
StInventoryWatcherExit ==
  /\ stStage = "first"
  /\ stInv = "select"
  /\ stInv' = "exited"
  /\ UNCHANGED <<stStage, stCfg, stMons, stIdx, stNew, stSwaps, stLastBy>>
  /\ UNCHANGED notSt

StNext ==
  \/ StFirstStage
  \/ \E i \in 1..MaxBackends : StMonitorExit(i)
  \/ \E applied \in BOOLEAN, n \in 0..MaxBackends : StConfigEvent(applied, n)
  \/ \E loaded \in BOOLEAN, n \in 0..MaxBackends : StInventoryEvent(loaded, n)
  \/ StCloseBackend
  \/ StSwapDone
  \/ StConfigWatcherExit
  \/ StInventoryWatcherExit

\* ============================================ the instrumented transport
ZeroWindow == [requests |-> 0, errors |-> 0, latencySum |-> 0]

IdleCall == [pc |-> "idle", o |-> NoProbe, resp |-> NoProbe, err |-> FALSE]

\* newStatTP: every counter is the zero value
RtInit ==
  /\ statRT = [running |-> 0, requests |-> 0, errors |-> 0, latencySum |-> 0]
  /\ rtCall = [c \in 1..MaxCallers |-> IdleCall]
  /\ rtDispatched = 0
  /\ rtDone = ZeroWindow
  /\ rtFolded = ZeroWindow
  /\ rtCycles = 0

\* t.Sub(u) of two instants
Sub(t, u) == t - u

\* statRT.RoundTrip: what counts as an error of the window
CountsAsErrorAbove(o) == o.err \/ o.StatusCode > 500
CountsAsError(o) == o.err \/ o.StatusCode >= 500

\* statRT.RoundTrip: s.running-- on the way out
RunningAfterSkippingErrors(n, o) == IF o.err THEN n ELSE n - 1
RunningAfter(n, o) == n - 1

\* statRT.RoundTrip, under s.mu after the transport answered o; the request
\* was started at instant start and the clock now reads now.
StatUpdate(s, o, start, now) ==
  [running |-> RunningAfter(s.running, o),
   requests |-> s.requests + 1,
   errors |-> IF CountsAsError(o) THEN s.errors + 1 ELSE s.errors,
   latencySum |-> s.latencySum + Sub(start, now)]

\* startMonitor, case <-ticker.C: what the window's counters are set to once
\* they have been read
WindowResetKeeps(n) == n
WindowReset(n) == 0

\* statRT.RoundTrip up to the dispatch: s.running++ under s.mu
StatRoundTripBegin(c) ==
  /\ rtCall[c].pc = "idle"
  /\ rtDispatched < MaxDispatch
  /\ statRT' = [statRT EXCEPT !.running = @ + 1]
  /\ rtCall' = [rtCall EXCEPT ![c] = [IdleCall EXCEPT !.pc = "inflight"]]
  /\ rtDispatched' = rtDispatched + 1
  /\ UNCHANGED <<rtDone, rtFolded, rtCycles>>
  /\ UNCHANGED notRt

\* statRT.RoundTrip from the transport's answer o, d ticks after the dispatch:
\* the counters are updated under s.mu, an error is returned with a nil
\* response, a response is returned with a nil error whatever its status.
StatRoundTripEnd(c, o, d) ==
  /\ rtCall[c].pc = "inflight"
  /\ statRT' = StatUpdate(statRT, o, 0, d)
  /\ rtCall' = [rtCall EXCEPT ![c] =
        [pc |-> "returned", o |-> o, resp |-> IF o.err THEN NoProbe ELSE o, err |-> o.err]]
  /\ rtDone' = [requests |-> rtDone.requests + 1,
                errors |-> rtDone.errors + (IF ObservedFailure(o) THEN 1 ELSE 0),
                latencySum |-> rtDone.latencySum + (statRT'.latencySum - statRT.latencySum)]
  /\ UNCHANGED <<rtDispatched, rtFolded, rtCycles>>
  /\ UNCHANGED notRt

\* The caller of RoundTrip goes on; the goroutine may call again.
StatCallerReturns(c) ==
  /\ rtCall[c].pc = "returned"
  /\ rtCall' = [rtCall EXCEPT ![c] = IdleCall]
  /\ UNCHANGED <<statRT, rtDispatched, rtDone, rtFolded, rtCycles>>
  /\ UNCHANGED notRt

\* startMonitor, case <-ticker.C: under s.mu the window is read into the moving
\* averages and its three counters are reset; s.running is left alone.
StatMonitorFold ==
  /\ rtCycles < MaxCycles
  /\ rtFolded' = [requests |-> rtFolded.requests + statRT.requests,
                  errors |-> rtFolded.errors + statRT.errors,
                  latencySum |-> rtFolded.latencySum + statRT.latencySum]
  /\ statRT' = [statRT EXCEPT !.requests = WindowReset(@), !.errors = WindowReset(@),
                      !.latencySum = WindowReset(@)]
  /\ rtCycles' = rtCycles + 1
  /\ UNCHANGED <<rtCall, rtDispatched, rtDone>>
  /\ UNCHANGED notRt

RtNext ==
  \/ \E c \in 1..MaxCallers : StatRoundTripBegin(c)
  \/ \E c \in 1..MaxCallers, o \in TransportOutcomes, d \in 0..MaxDur :
       StatRoundTripEnd(c, o, d)
  \/ \E c \in 1..MaxCallers : StatCallerReturns(c)
  \/ StatMonitorFold

\* ================================================= the websocket relay
NewUpgrade ==
  [pc |-> "start", a |-> "none", b |-> "none", toA |-> "none", toB |-> "none",
   errc |-> 0, eofA |-> FALSE, eofB |-> FALSE, status |-> 0]

WsInit == ws = [w \in 1..MaxWs |-> NewUpgrade]

\* The deferred a.Close() and b.Close() of ServeHTTP, run at its return
DeferredClose(c) == IF c = "open" THEN "closed" ELSE c

\* <-errc: ServeHTTP goes on once n values have been sent on errc
RelayMayEndWhenBothDone(n) == n >= 2
RelayMayEnd(n) == n >= 1

\* w.(http.Hijacker) and hj.Hijack()
WsHijack(w, ok) ==
  /\ ws[w].pc = "start"
  /\ ws' = [ws EXCEPT ![w] =
        IF ok THEN [@ EXCEPT !.pc = "hijacked", !.a = "open"]
        ELSE [@ EXCEPT !.pc = "returned", !.status = 500]]
  /\ UNCHANGED notWs

\* net.Dial("tcp", r.URL.Host)
WsDial(w, ok) ==
  /\ ws[w].pc = "hijacked"
  /\ ws' = [ws EXCEPT ![w] =
        IF ok THEN [@ EXCEPT !.pc = "dialled", !.b = "open"]
        ELSE [@ EXCEPT !.pc = "returned", !.status = 503, !.a = DeferredClose(@)]]
  /\ UNCHANGED notWs

\* r.Write(b), then the two copying goroutines are started
WsWrite(w, ok) ==
  /\ ws[w].pc = "dialled"
  /\ ws' = [ws EXCEPT ![w] =
        IF ok THEN [@ EXCEPT !.pc = "relay", !.toA = "running", !.toB = "running"]
        ELSE [@ EXCEPT !.pc = "returned", !.status = 500, !.a = DeferredClose(@),
                       !.b = DeferredClose(@)]]
  /\ UNCHANGED notWs

\* The client (side = "a") or the backend (side = "b") closes its end.
WsPeerCloses(w, side) ==
  /\ ws[w].pc = "relay"
  /\ IF side = "a"
       THEN ~ws[w].eofA /\ ws' = [ws EXCEPT ![w].eofA = TRUE]
       ELSE ~ws[w].eofB /\ ws' = [ws EXCEPT ![w].eofB = TRUE]
  /\ UNCHANGED notWs

\* io.Copy must end: its source is at EOF or one of the connections is closed
CopyMustEnd(s, dir) ==
  \/ s.a = "closed" \/ s.b = "closed"
  \/ (dir = "toA" /\ s.eofB)
  \/ (dir = "toB" /\ s.eofA)

\* errc := make(chan error, 2): a send returns at once while fewer than two
\* values are buffered; otherwise the sender waits for the receiver.
ErrcUnbuffered(n) == FALSE
ErrcHasRoom(n) == n < 2

\* The copy directions whose goroutine waits in its send on errc
Sending(s) == {dir \in {"toA", "toB"} : s[dir] = "sending"}

\* cp(a, b) (dir = "toA") or cp(b, a) (dir = "toB"): io.Copy returns, at EOF or
\* with an error (forced = FALSE: a network error at any time), and its result
\* is sent on errc.
WsCopyEnds(w, dir, forced) ==
  /\ ws[w][dir] = "running"
  /\ forced => CopyMustEnd(ws[w], dir)
  /\ ws' = [ws EXCEPT ![w] =
        IF ErrcHasRoom(@.errc)
          THEN [@ EXCEPT ![dir] = "done", !.errc = @ + 1]
          ELSE [@ EXCEPT ![dir] = "sending"]]
  /\ UNCHANGED notWs

\* ServeHTTP receives from errc, from the buffer or from a sender that waits
\* (whose send then returns), and returns; the deferred Close calls run.
WsRelayEnds(w) ==
  /\ ws[w].pc = "relay"
  /\ RelayMayEnd(ws[w].errc + Cardinality(Sending(ws[w])))
  /\ IF Sending(ws[w]) = {}
       THEN ws' = [ws EXCEPT ![w] = [@ EXCEPT !.pc = "returned", !.errc = @ - 1,
                                            !.a = DeferredClose(@), !.b = DeferredClose(@)]]
       ELSE \E dir \in Sending(ws[w]) :
              ws' = [ws EXCEPT ![w] = [@ EXCEPT !.pc = "returned", ![dir] = "done",
                                               !.a = DeferredClose(@), !.b = DeferredClose(@)]]
  /\ UNCHANGED notWs

WsNext ==
  \/ \E w \in 1..MaxWs, ok \in BOOLEAN : WsHijack(w, ok)
  \/ \E w \in 1..MaxWs, ok \in BOOLEAN : WsDial(w, ok)
  \/ \E w \in 1..MaxWs, ok \in BOOLEAN : WsWrite(w, ok)
  \/ \E w \in 1..MaxWs, side \in {"a", "b"} : WsPeerCloses(w, side)
  \/ \E w \in 1..MaxWs, dir \in {"toA", "toB"}, forced \in BOOLEAN : WsCopyEnds(w, dir, forced)
  \/ \E w \in 1..MaxWs : WsRelayEnds(w)

\* ================================================ the inventory and its file
\* The droplets an inventory file or the provider can name. Two of them carry
\* the same ID: ReadInventory does not check that IDs are unique.
DropletPool ==
  {[ID |-> 1, Name |-> "web-1", PublicIP |-> "", PrivateIP |-> "10.0.0.1",
    ServerHost |-> "10.0.0.1:80", HealthURL |-> "", Started |-> 0],
   [ID |-> 1, Name |-> "web-1b", PublicIP |-> "1.2.3.4", PrivateIP |-> "10.0.0.3",
    ServerHost |-> "10.0.0.3:80", HealthURL |-> "http://10.0.0.3/", Started |-> 1],
   [ID |-> MaxID, Name |-> "web-2", PublicIP |-> "", PrivateIP |-> "10.0.0.2",
    ServerHost |-> "10.0.0.2:80", HealthURL |-> "http://10.0.0.2/", Started |-> MaxStarted]}

\* A Backend that is not a DropletBackend (one injected by a test)
OtherDroplet ==
  [ID |-> 0, Name |-> "mock", PublicIP |-> "", PrivateIP |-> "", ServerHost |-> "mock:80",
   HealthURL |-> "", Started |-> 0]

\* NewDropletBackend: the Droplet is kept as it is; newBackend starts the
\* monitor unless health checks are disabled.
NewDropletBackend(d, disableHealth) ==
  [kind |-> "droplet", Droplet |-> d, mon |-> newBackend(d.HealthURL, disableHealth).mon]

\* DropletBackend.ID (strconv.Itoa of the droplet's ID; the mock names itself)
BackendID(be) == IF be.kind = "droplet" THEN be.Droplet.ID ELSE 0

\* The TOML encoder's rendering of a time: every digit, or cut to milliseconds
TomlTime(t, exact) == IF exact THEN t ELSE (t \div TicksPerMs) * TicksPerMs

\* toml.Marshal of Droplets
TomlMarshal(drops, exact) ==
  [kind |-> "toml",
   recs |-> [i \in 1..Len(drops) |->
               [drops[i] EXCEPT !.Started = TomlTime(drops[i].Started, exact)]]]

\* os.Open, ioutil.ReadAll and toml.Unmarshal of the file
TomlUnmarshal(file) ==
  IF file.kind = "toml" THEN [err |-> FALSE, drops |-> file.recs]
  ELSE [err |-> TRUE, drops |-> <<>>]

\* SaveDroplets: the Droplet of every backend that is a DropletBackend, in
\* inventory order
DropletsOf(backends) ==
  LET F[i \in 0..Len(backends)] ==
        IF i = 0 THEN <<>>
        ELSE IF backends[i].kind = "droplet" THEN Append(F[i - 1], backends[i].Droplet)
             ELSE F[i - 1]
  IN F[Len(backends)]

\* ReadInventory, the loop over drops.Droplets: inv.backends = append(inv.backends, ...)
AppendBackendInFront(backends, be) == <<be>> \o backends
AppendBackend(backends, be) == Append(backends, be)

\* ReadInventory: nil and the error when the file cannot be opened, read or
\* parsed; otherwise one DropletBackend per droplet of the file.
ReadInventoryBuildingFirst(file, disableHealth) ==
  LET u == TomlUnmarshal(file)
      drops == file.recs
      F[i \in 0..Len(drops)] ==
        IF i = 0 THEN <<>>
        ELSE AppendBackend(F[i - 1], NewDropletBackend(drops[i], disableHealth))
  IN [err |-> u.err, backends |-> IF u.err THEN <<>> ELSE F[Len(drops)],
      made |-> Len(drops),
      started |-> IF disableHealth THEN 0 ELSE Len(drops)]
ReadInventoryFile(file, disableHealth) ==
  LET u == TomlUnmarshal(file)
      F[i \in 0..Len(u.drops)] ==
        IF i = 0 THEN <<>>
        ELSE AppendBackend(F[i - 1], NewDropletBackend(u.drops[i], disableHealth))
  IN [err |-> u.err, backends |-> F[Len(u.drops)], made |-> Len(u.drops),
      started |-> IF disableHealth THEN 0 ELSE Len(u.drops)]

\* Inventory.Remove: the index of the backend the loop stops at, 0 for none
RemoveIndexLast(backends, id) ==
  LET hits == {j \in 1..Len(backends) : BackendID(backends[j]) = id}
  IN IF hits = {} THEN 0 ELSE CHOOSE j \in hits : \A k \in hits : k <= j
RemoveIndex(backends, id) ==
  LET hits == {j \in 1..Len(backends) : BackendID(backends[j]) = id}
  IN IF hits = {} THEN 0 ELSE CHOOSE j \in hits : \A k \in hits : j <= k

\* append(i.backends[:j], i.backends[j+1:]...), j counted from 1
WithoutIndex(backends, j) ==
  [k \in 1..(Len(backends) - 1) |-> IF k < j THEN backends[k] ELSE backends[k + 1]]

NotLoaded == [err |-> FALSE, backends |-> <<>>]
NoOp == [op |-> "none", id |-> 0, err |-> FALSE, made |-> 0, started |-> 0]

\* An inventory as ReadInventory, the command line or a test has made it, and
\* its file before anything is saved.
IvInit ==
  /\ ivHealthOff \in BOOLEAN
  /\ \E n \in 0..MaxInv :
       \E ds \in [1..n -> DropletPool \cup {OtherDroplet}] :
         ivBackends = [i \in 1..n |->
           IF ds[i] = OtherDroplet
             THEN [kind |-> "other", Droplet |-> OtherDroplet, mon |-> "none"]
             ELSE NewDropletBackend(ds[i], ivHealthOff)]
  /\ ivFile \in {[kind |-> "absent", recs |-> <<>>]}
  /\ ivAtSave = <<>>
  /\ ivLoaded = NotLoaded
  /\ ivOp = NoOp
  /\ ivGone = <<>>

\* Inventory.AddBackend
IvAddBackend(d) ==
  /\ Len(ivBackends) < MaxInv
  /\ ivBackends' = Append(ivBackends, NewDropletBackend(d, ivHealthOff))
  /\ ivOp' = [NoOp EXCEPT !.op = "AddBackend", !.id = d.ID]
  /\ ivGone' = <<>>
  /\ ivLoaded' = NotLoaded
  /\ UNCHANGED <<ivHealthOff, ivFile, ivAtSave>>
  /\ UNCHANGED notIv

\* Inventory.Remove(id)
IvRemove(id) ==
  /\ LET j == RemoveIndex(ivBackends, id)
     IN IF j = 0
          THEN /\ ivOp' = [NoOp EXCEPT !.op = "Remove", !.id = id, !.err = TRUE]
               /\ ivGone' = <<>>
               /\ UNCHANGED ivBackends
          ELSE /\ ivOp' = [NoOp EXCEPT !.op = "Remove", !.id = id]
               /\ ivGone' = <<ivBackends[j]>>
               /\ ivBackends' = WithoutIndex(ivBackends, j)
  /\ ivLoaded' = NotLoaded
  /\ UNCHANGED <<ivHealthOff, ivFile, ivAtSave>>
  /\ UNCHANGED notIv

\* Inventory.SaveDroplets with the shutdown lock granted: the droplets are
\* marshalled and written; a file that cannot be created is left as it was.
IvSaveDroplets(created, exact) ==
  /\ IF created
       THEN /\ ivFile' = TomlMarshal(DropletsOf(ivBackends), exact)
            /\ ivAtSave' = [i \in 1..Len(ivBackends) |->
                              [kind |-> ivBackends[i].kind, Droplet |-> ivBackends[i].Droplet]]
       ELSE UNCHANGED <<ivFile, ivAtSave>>
  /\ ivOp' = [NoOp EXCEPT !.op = "SaveDroplets", !.err = ~created]
  /\ ivGone' = <<>>
  /\ ivLoaded' = NotLoaded
  /\ UNCHANGED <<ivBackends, ivHealthOff>>
  /\ UNCHANGED notIv

\* ReadInventory(file, bec)
IvReadInventory ==
  /\ LET r == ReadInventoryFile(ivFile, ivHealthOff)
     IN /\ ivLoaded' = [err |-> r.err, backends |-> r.backends]
        /\ ivOp' = [NoOp EXCEPT !.op = "ReadInventory", !.err = r.err, !.made = r.made,
                                !.started = r.started]
  /\ ivGone' = <<>>
  /\ UNCHANGED <<ivBackends, ivHealthOff, ivFile, ivAtSave>>
  /\ UNCHANGED notIv

\* The file is deleted, or an editor leaves it with a syntax error after the
\* records it holds.
IvFileDamaged(kind) ==
  /\ ivFile.kind # kind
  /\ ivFile' = [kind |-> kind, recs |-> IF kind = "absent" THEN <<>> ELSE ivFile.recs]
  /\ ivAtSave' = <<>>
  /\ ivOp' = NoOp
  /\ ivGone' = <<>>
  /\ ivLoaded' = NotLoaded
  /\ UNCHANGED <<ivBackends, ivHealthOff>>
  /\ UNCHANGED notIv

IvNext ==
  \/ \E d \in DropletPool : IvAddBackend(d)
  \/ \E id \in 1..MaxID : IvRemove(id)
  \/ \E created, exact \in BOOLEAN : IvSaveDroplets(created, exact)
  \/ IvReadInventory
  \/ \E kind \in {"absent", "garbage"} : IvFileDamaged(kind)

\* =================================== concurrent calls of roundRobin.Backend
\* r.mu.Lock() goes through when the mutex is free
MutexAdmitsAnyone(mu) == TRUE
MutexAdmits(mu) == mu = 0

\* A balancer over 1..MaxBackends backends that stay healthy, its cursor where
\* earlier calls have left it (0 when fresh), and K <= N goroutines about to
\* call Backend().
CcInit ==
  /\ ccN \in 1..MaxBackends
  /\ ccK \in 1..ccN
  /\ ccNext \in 0..ccN
  /\ ccMu = 0
  /\ ccCall = [c \in 1..ccK |-> [pc |-> "idle", first |-> Nil, ret |-> Nil]]
  /\ ccStart = ccNext

\* roundRobin.Backend: r.mu.Lock()
CcLock(c) ==
  /\ c \in 1..ccK
  /\ ccCall[c].pc = "idle"
  /\ MutexAdmits(ccMu)
  /\ ccMu' = c
  /\ ccCall' = [ccCall EXCEPT ![c].pc = "locked"]
  /\ UNCHANGED <<ccN, ccK, ccNext, ccStart>>
  /\ UNCHANGED notCc

\* roundRobin.Backend: first := r.next
CcReadCursor(c) ==
  /\ c \in 1..ccK
  /\ ccCall[c].pc = "locked"
  /\ ccCall' = [ccCall EXCEPT ![c] = [@ EXCEPT !.pc = "read", !.first = ccNext]]
  /\ UNCHANGED <<ccN, ccK, ccNext, ccMu, ccStart>>
  /\ UNCHANGED notCc

\* roundRobin.Backend, the loop's only iteration (the backend is healthy):
\* ni := r.next % len, r.next = ni + 1, return the backend at ni; the deferred
\* r.mu.Unlock() runs.
CcReturn(c) ==
  /\ c \in 1..ccK
  /\ ccCall[c].pc = "read"
  /\ LET ni == NextIndex(ccNext, ccN)
     IN /\ ccNext' = ni + 1
        /\ ccCall' = [ccCall EXCEPT ![c] = [@ EXCEPT !.pc = "returned", !.ret = ni]]
  /\ ccMu' = 0
  /\ UNCHANGED <<ccN, ccK, ccStart>>
  /\ UNCHANGED notCc

CcNext ==
  \/ \E c \in 1..MaxBackends : CcLock(c)
  \/ \E c \in 1..MaxBackends : CcReadCursor(c)
  \/ \E c \in 1..MaxBackends : CcReturn(c)

\* ============================================================ lock order
\* The goroutines that meet on one backend: its monitor, a request in
\* ServeHTTP (least-connections selection, then the forward), a caller of
\* lbBase.Stats and a reload in SetBackends.
Goroutines == {"monitor", "request", "stats", "setbackends"}

Lock(mu, mode) == [op |-> "lock", mu |-> mu, mode |-> mode]
Unlock(mu) == [op |-> "unlock", mu |-> mu, mode |-> ""]
NetCall == [op |-> "net", mu |-> "", mode |-> ""]
Select == [op |-> "select", mu |-> "", mode |-> ""]
SendStop == [op |-> "send", mu |-> "", mode |-> ""]

\* backend.Connections
Connections == <<Lock("rt.mu", "R"), Unlock("rt.mu")>>

\* backend.Healthy
HealthyCode == <<Lock("Stats.mu", "R"), Unlock("Stats.mu")>>

\* backend.Statistics, followed by what its caller does next
StatisticsHeldOver(then) == <<Lock("Stats.mu", "R")>> \o then \o <<Unlock("Stats.mu")>>
Statistics(then) == <<Lock("Stats.mu", "R"), Unlock("Stats.mu")>> \o then

\* statRT.RoundTrip
RoundTripCode ==
  <<Lock("rt.mu", "W"), Unlock("rt.mu"), NetCall, Lock("rt.mu", "W"), Unlock("rt.mu")>>

\* startMonitor, one turn of its loop: the select, the fold under both locks,
\* healthCheck releasing Stats.mu while the probe is in flight
startMonitorCode ==
  <<Select, Lock("rt.mu", "W"), Lock("Stats.mu", "W"), Unlock("rt.mu"),
    Unlock("Stats.mu"), NetCall, Lock("Stats.mu", "W"), Unlock("Stats.mu")>>

\* ServeHTTP: GetConfig, GetBackend (leastConn.Backend under h.mu), RoundTrip
ServeHTTPCode ==
  <<Lock("h.mu", "R"), Unlock("h.mu"), Lock("h.mu", "R"), Lock("r.mu", "W")>>
    \o HealthyCode \o Connections
    \o <<Unlock("r.mu"), Unlock("h.mu")>>
    \o RoundTripCode

\* lbBase.Stats
StatsCode ==
  <<Lock("r.mu", "R"), Lock("inv.mu", "R")>>
    \o Statistics(Connections)
    \o <<Unlock("inv.mu"), Unlock("r.mu")>>

\* SetBackends: lbBase.Close, Inventory.Close, backend.Close
SetBackendsCode ==
  <<Lock("h.mu", "W"), Lock("r.mu", "W"), Lock("inv.mu", "R"), SendStop,
    Unlock("inv.mu"), Unlock("r.mu"), Unlock("h.mu")>>

Code(g) ==
  CASE g = "monitor" -> startMonitorCode
    [] g = "request" -> ServeHTTPCode
    [] g = "stats" -> StatsCode
    [] OTHER -> SetBackendsCode

Returned(g) == lkPc[g] > Len(Code(g))

Instr(g) == IF Returned(g) THEN [op |-> "none", mu |-> "", mode |-> ""] ELSE Code(g)[lkPc[g]]

\* the monitor loops; everything else runs to its end
Advance(g) == IF g = "monitor" /\ lkPc[g] = Len(Code(g)) THEN 1 ELSE lkPc[g] + 1

Holds(g, mu) == \E h \in lkHeld[g] : h.mu = mu

\* sync.RWMutex: Lock waits for every holder; RLock waits for a writer that
\* holds the mutex or is blocked in Lock
MayLock(g, mu, mode) ==
  IF mode = "W"
    THEN \A o \in Goroutines \ {g} : ~Holds(o, mu)
    ELSE \A o \in Goroutines \ {g} :
           /\ \A h \in lkHeld[o] : ~(h.mu = mu /\ h.mode = "W")
           /\ lkWant[o] # mu

LkInit ==
  /\ lkPc = [g \in Goroutines |-> 1]
  /\ lkHeld = [g \in Goroutines |-> {}]
  /\ lkWant = [g \in Goroutines |-> ""]
  /\ lkCycles = 0
  /\ lkStopped = FALSE

\* A goroutine calls Lock() on a mutex: from now on it is a waiting writer.
LkLockCalled(g) ==
  /\ Instr(g).op = "lock" /\ Instr(g).mode = "W"
  /\ lkWant[g] = ""
  /\ lkWant' = [lkWant EXCEPT ![g] = Instr(g).mu]
  /\ UNCHANGED <<lkPc, lkHeld, lkCycles, lkStopped>>
  /\ UNCHANGED notLk

\* Lock() or RLock() returns.
LkLocked(g) ==
  /\ Instr(g).op = "lock"
  /\ Instr(g).mode = "W" => lkWant[g] = Instr(g).mu
  /\ MayLock(g, Instr(g).mu, Instr(g).mode)
  /\ lkHeld' = [lkHeld EXCEPT ![g] = @ \cup {[mu |-> Instr(g).mu, mode |-> Instr(g).mode]}]
  /\ lkWant' = [lkWant EXCEPT ![g] = ""]
  /\ lkPc' = [lkPc EXCEPT ![g] = Advance(g)]
  /\ UNCHANGED <<lkCycles, lkStopped>>
  /\ UNCHANGED notLk

\* Unlock() or RUnlock()
LkUnlocked(g) ==
  /\ Instr(g).op = "unlock"
  /\ lkHeld' = [lkHeld EXCEPT ![g] = {h \in @ : h.mu # Instr(g).mu}]
  /\ lkPc' = [lkPc EXCEPT ![g] = Advance(g)]
  /\ UNCHANGED <<lkWant, lkCycles, lkStopped>>
  /\ UNCHANGED notLk

\* The network call of a forward or of a health probe returns.
LkNetCallReturns(g) ==
  /\ Instr(g).op = "net"
  /\ lkPc' = [lkPc EXCEPT ![g] = Advance(g)]
  /\ UNCHANGED <<lkHeld, lkWant, lkCycles, lkStopped>>
  /\ UNCHANGED notLk

\* startMonitor, case <-ticker.C
LkMonitorTick ==
  /\ Instr("monitor").op = "select"
  /\ lkCycles < MaxCycles
  /\ lkCycles' = lkCycles + 1
  /\ lkPc' = [lkPc EXCEPT !["monitor"] = Advance("monitor")]
  /\ UNCHANGED <<lkHeld, lkWant, lkStopped>>
  /\ UNCHANGED notLk

\* backend.Close meets the monitor's select: b.closeMonitor <- c, case n :=
\* <-end, close(n), <-c; the monitor returns.
LkMonitorStopped ==
  /\ Instr("monitor").op = "select"
  /\ Instr("setbackends").op = "send"
  /\ lkStopped' = TRUE
  /\ lkPc' = [lkPc EXCEPT !["monitor"] = Len(startMonitorCode) + 1,
                          !["setbackends"] = Advance("setbackends")]
  /\ UNCHANGED <<lkHeld, lkWant, lkCycles>>
  /\ UNCHANGED notLk

LkNext ==
  \/ \E g \in Goroutines : LkLockCalled(g)
  \/ \E g \in Goroutines : LkLocked(g)
  \/ \E g \in Goroutines : LkUnlocked(g)
  \/ \E g \in Goroutines : LkNetCallReturns(g)
  \/ LkMonitorTick
  \/ LkMonitorStopped

\* ===================================================== the file watcher
InventoryPaths == {"inv1", "inv2"}

FileOps == {"Write", "Rename", "Remove"}

NoEvent == [Op |-> "none", Name |-> "", conf |-> "", reloaded |-> FALSE]

\* watcher.Add(path): an error, and no watch, unless a file is at the path
WatcherAdd(watched, exists, path) ==
  IF path \in exists THEN watched \cup {path} ELSE watched

\* watcher.Remove(name)
WatcherRemove(watched, name) == watched \ {name}

\* The switch on event.Op: which events go on to the reload
ReloadsOn(op) == op # "Remove"

\* MonitorInventory up to the goroutine: the configured file is watched; the
\* handler's backends were read from it by Server.Run.
WtInit ==
  /\ wtFile = "inv1"
  /\ wtConfigPath = "inv1"
  /\ wtExists = InventoryPaths
  /\ wtWatched = WatcherAdd({}, wtExists, wtFile)
  /\ wtEvents = <<>>
  /\ wtInstalledFrom = "inv1"
  /\ wtLast = NoEvent

\* Something outside the server writes, renames away or deletes the file at
\* path p; the watch on it, if there is one, reports it. A deleted file's
\* watch is gone with the file.
WtFileChanged(p, op) ==
  /\ p \in wtExists
  /\ p \in wtWatched => Len(wtEvents) < MaxEvents
  /\ wtExists' = IF op = "Write" THEN wtExists ELSE wtExists \ {p}
  /\ wtEvents' = IF p \in wtWatched
                   THEN Append(wtEvents, [Op |-> op, Name |-> p, conf |-> wtConfigPath])
                   ELSE wtEvents
  /\ wtWatched' = IF op = "Remove" THEN wtWatched \ {p} ELSE wtWatched
  /\ wtLast' = NoEvent
  /\ UNCHANGED <<wtFile, wtConfigPath, wtInstalledFrom>>
  /\ UNCHANGED notWt

\* A file is created at a path that had none.
WtFileCreated(p) ==
  /\ p \notin wtExists
  /\ wtExists' = wtExists \cup {p}
  /\ wtLast' = NoEvent
  /\ UNCHANGED <<wtFile, wtConfigPath, wtWatched, wtEvents, wtInstalledFrom>>
  /\ UNCHANGED notWt

\* MonitorInventory, case event := <-watcher.Events, the whole branch: a
\* Rename removes the watch of event.Name and adds one for `file`; a Remove
\* goes back to the select; otherwise ReadInventory(event.Name) and, if it
\* could be read, SetBackends with a balancer over it.
WtEvent ==
  /\ wtEvents # <<>>
  /\ LET event == Head(wtEvents)
         reload == ReloadsOn(event.Op) /\ event.Name \in wtExists
     IN /\ wtWatched' = IF event.Op = "Rename"
                          THEN WatcherAdd(WatcherRemove(wtWatched, event.Name),
                                          wtExists, wtFile)
                          ELSE wtWatched
        /\ wtInstalledFrom' = IF reload THEN event.Name ELSE wtInstalledFrom
        /\ wtLast' = [Op |-> event.Op, Name |-> event.Name, conf |-> event.conf,
                     reloaded |-> reload]
  /\ wtEvents' = Tail(wtEvents)
  /\ UNCHANGED <<wtFile, wtConfigPath, wtExists>>
  /\ UNCHANGED notWt

\* UpdateConfig with a configuration that names another inventory file and
\* is accepted: the file is read, its backends are installed, s.Config = new.
WtUpdateConfig(p) ==
  /\ p # wtConfigPath
  /\ p \in wtExists
  /\ wtConfigPath' = p
  /\ wtInstalledFrom' = p
  /\ wtLast' = NoEvent
  /\ UNCHANGED <<wtFile, wtExists, wtWatched, wtEvents>>
  /\ UNCHANGED notWt

WtNext ==
  \/ \E p \in InventoryPaths, op \in FileOps : WtFileChanged(p, op)
  \/ \E p \in InventoryPaths : WtFileCreated(p)
  \/ WtEvent
  \/ \E p \in InventoryPaths : WtUpdateConfig(p)

\* ================================================== concurrent Close
\* newBackend with health checks enabled: closeMonitor is made and the
\* monitor started; nobody has called Close.
ClInit ==
  /\ clField = "chan"
  /\ clChan = "open"
  /\ clMon = "select"
  /\ clPc = [c \in 1..MaxClosers |-> "idle"]
  /\ clOn = [c \in 1..MaxClosers |-> "none"]
  /\ clStops = 0

\* backend.Close: if b.closeMonitor == nil { return }
ClCloseCalled(c) ==
  /\ clPc[c] = "idle"
  /\ clPc' = [clPc EXCEPT ![c] = IF clField = "nil" THEN "returned" ELSE "checked"]
  /\ UNCHANGED <<clField, clChan, clMon, clOn, clStops>>
  /\ UNCHANGED notCl

\* backend.Close: b.closeMonitor <- c begins; the channel operand is read
\* from the field now.
ClSendBegins(c) ==
  /\ clPc[c] = "checked"
  /\ clOn' = [clOn EXCEPT ![c] = clField]
  /\ clPc' = [clPc EXCEPT ![c] = "sending"]
  /\ UNCHANGED <<clField, clChan, clMon, clStops>>
  /\ UNCHANGED notCl

\* The monitor's select takes the send (case n := <-end), cancels its
\* shutdown notifier, closes n and returns; the sender's <-c returns.
ClMonitorReceives(c) ==
  /\ clPc[c] = "sending" /\ clOn[c] = "chan" /\ clChan = "open"
  /\ clMon = "select"
  /\ clMon' = "returned"
  /\ clStops' = clStops + 1
  /\ clPc' = [clPc EXCEPT ![c] = "acked"]
  /\ UNCHANGED <<clField, clChan, clOn>>
  /\ UNCHANGED notCl

\* A send on a closed channel panics, also one that was already waiting.
ClSendPanics(c) ==
  /\ clPc[c] = "sending" /\ clOn[c] = "chan" /\ clChan = "closed"
  /\ clPc' = [clPc EXCEPT ![c] = "panicked"]
  /\ UNCHANGED <<clField, clChan, clMon, clOn, clStops>>
  /\ UNCHANGED notCl

\* backend.Close: close(b.closeMonitor); closing nil or a closed channel panics.
ClCloseChannel(c) ==
  /\ clPc[c] = "acked"
  /\ IF clField = "nil" \/ clChan = "closed"
       THEN /\ clPc' = [clPc EXCEPT ![c] = "panicked"]
            /\ UNCHANGED clChan
       ELSE /\ clPc' = [clPc EXCEPT ![c] = "closing"]
            /\ clChan' = "closed"
  /\ UNCHANGED <<clField, clMon, clOn, clStops>>
  /\ UNCHANGED notCl

\* backend.Close: b.closeMonitor = nil, return
ClFieldCleared(c) ==
  /\ clPc[c] = "closing"
  /\ clField' = "nil"
  /\ clPc' = [clPc EXCEPT ![c] = "returned"]
  /\ UNCHANGED <<clChan, clMon, clOn, clStops>>
  /\ UNCHANGED notCl

\* startMonitor, case <-ticker.C: until the cycle is over the monitor is not
\* in its select.
ClMonitorCycle ==
  /\ clMon \in {"select", "cycle"}
  /\ clMon' = IF clMon = "select" THEN "cycle" ELSE "select"
  /\ UNCHANGED <<clField, clChan, clPc, clOn, clStops>>
  /\ UNCHANGED notCl

ClNext ==
  \/ \E c \in 1..MaxClosers : ClCloseCalled(c)
  \/ \E c \in 1..MaxClosers : ClSendBegins(c)
  \/ \E c \in 1..MaxClosers : ClMonitorReceives(c)
  \/ \E c \in 1..MaxClosers : ClSendPanics(c)
  \/ \E c \in 1..MaxClosers : ClCloseChannel(c)
  \/ \E c \in 1..MaxClosers : ClFieldCleared(c)
  \/ ClMonitorCycle

\* ============================================ round robin against Remove
\* An inventory of MaxBackends healthy backends bound to a new round robin.
RmInit ==
  /\ rmBackends = [i \in 1..MaxBackends |-> i]
  /\ rmNext = 0
  /\ rmPc = "idle"
  /\ rmNi = 0
  /\ rmRet = Nil
  /\ rmGone = {}
  /\ rmGoneAtCall = {}

\* roundRobin.Backend under r.mu: ni := r.next % len(r.inv.backends), the
\* length being read from the inventory without its lock.
RmBackendReadsLen ==
  /\ rmPc = "idle"
  /\ rmNi' = NextIndex(rmNext, Len(rmBackends))
  /\ rmPc' = "indexing"
  /\ rmRet' = Nil
  /\ rmGoneAtCall' = rmGone
  /\ UNCHANGED <<rmBackends, rmNext, rmGone>>
  /\ UNCHANGED notRm

\* roundRobin.Backend: be := r.inv.backends[ni] on the slice as it is now (an
\* index beyond it panics), r.next = ni + 1, be is healthy and returned.
RmBackendIndexes ==
  /\ rmPc = "indexing"
  /\ IF rmNi + 1 > Len(rmBackends)
       THEN /\ rmPc' = "panicked"
            /\ UNCHANGED <<rmNext, rmRet>>
       ELSE /\ rmPc' = "returned"
            /\ rmRet' = rmBackends[rmNi + 1]
            /\ rmNext' = rmNi + 1
  /\ UNCHANGED <<rmBackends, rmNi, rmGone, rmGoneAtCall>>
  /\ UNCHANGED notRm

\* The caller has the backend; the next request calls Backend() again.
RmCallerGoesOn ==
  /\ rmPc = "returned"
  /\ rmPc' = "idle"
  /\ UNCHANGED <<rmBackends, rmNext, rmNi, rmRet, rmGone, rmGoneAtCall>>
  /\ UNCHANGED notRm

\* Inventory.Remove(id) under i.mu on an inventory that stays non-empty
RmRemove(id) ==
  /\ Len(rmBackends) > 1
  /\ \E j \in 1..Len(rmBackends) :
       /\ rmBackends[j] = id
       /\ rmBackends' = WithoutIndex(rmBackends, j)
  /\ rmGone' = rmGone \cup {id}
  /\ UNCHANGED <<rmNext, rmPc, rmNi, rmRet, rmGoneAtCall>>
  /\ UNCHANGED notRm

RmNext ==
  \/ RmBackendReadsLen
  \/ RmBackendIndexes
  \/ RmCallerGoesOn
  \/ \E id \in 1..MaxBackends : RmRemove(id)

\* ========================================================= specifications
\* The parts a specification does not exercise stay as constructed.
RRParked ==
  /\ healthy = <<>> /\ next = 0 /\ first = 0 /\ rrPc = "idle" /\ ret = Nil
  /\ examined = 0 /\ calls = 0 /\ stayedHealthy = TRUE /\ stayedUnhealthy = FALSE
  /\ quiet = FALSE

LCParked ==
  /\ lcHealthy = <<>> /\ lcConns = <<>> /\ lcPc = "idle"
  /\ lcRet = [kind |-> "nil", idx |-> Nil, next |-> 0]

PxParked ==
  /\ sConfig = BaseConfig /\ hConf = BaseConfig /\ hBalancer = Nil /\ lbs = <<>>
  /\ bes = <<>> /\ reqs = <<>> /\ updPc = "idle" /\ pendingConf = BaseConfig
  /\ pendingLB = Nil /\ invPc = "select" /\ invLoaded = <<>> /\ reloads = 0
  /\ lastImmutable = FALSE /\ lastFailed = FALSE /\ loads = 0
  /\ lastLoadOK = TRUE /\ invLoadOK = TRUE /\ hConfGen = 0 /\ hLbGen = 0

MonParked ==
  /\ HealthURL = "" /\ closeMonitor = "nil" /\ Healthy = TRUE /\ healthFailures = 0
  /\ monPc = "none" /\ closePc = "none" /\ stage = "running" /\ closeCalls = 0
  /\ lastOutcome = NoProbe /\ wasHealthy = TRUE
  /\ consec = 0 /\ consecBefore = 0 /\ cycled = FALSE

SvParked ==
  /\ svStage = "running" /\ svTimedOut = FALSE /\ svLocks = 0 /\ savePc = <<>>
  /\ saveErr = <<>> /\ fileState = "absent" /\ svWaited = FALSE

RtParked ==
  /\ statRT = [running |-> 0, requests |-> 0, errors |-> 0, latencySum |-> 0]
  /\ rtCall = <<>> /\ rtDispatched = 0 /\ rtDone = ZeroWindow /\ rtFolded = ZeroWindow
  /\ rtCycles = 0

WsParked == ws = <<>>

IvParked ==
  /\ ivBackends = <<>> /\ ivHealthOff = TRUE /\ ivFile = [kind |-> "absent", recs |-> <<>>]
  /\ ivAtSave = <<>> /\ ivLoaded = [err |-> FALSE, backends |-> <<>>] /\ ivOp = NoOp
  /\ ivGone = <<>>

CcParked ==
  /\ ccN = 0 /\ ccK = 0 /\ ccNext = 0 /\ ccMu = 0 /\ ccCall = <<>> /\ ccStart = 0

LkParked ==
  /\ lkPc = <<>> /\ lkHeld = <<>> /\ lkWant = <<>> /\ lkCycles = 0 /\ lkStopped = FALSE

WtParked ==
  /\ wtFile = "" /\ wtConfigPath = "" /\ wtExists = {} /\ wtWatched = {} /\ wtEvents = <<>>
  /\ wtInstalledFrom = "" /\ wtLast = <<>>

ClParked ==
  /\ clField = "" /\ clChan = "" /\ clMon = "" /\ clPc = <<>> /\ clOn = <<>> /\ clStops = 0

RmParked ==
  /\ rmBackends = <<>> /\ rmNext = 0 /\ rmPc = "" /\ rmNi = 0 /\ rmRet = Nil
  /\ rmGone = {} /\ rmGoneAtCall = {}

StParked ==
  /\ stStage = "running" /\ stCfg = "select" /\ stInv = "select" /\ stMons = <<>>
  /\ stIdx = 1 /\ stNew = 0 /\ stSwaps = 0 /\ stLastBy = "none"

InitRR == RRInit /\ MonParked /\ PxParked /\ LCParked /\ SvParked /\ StParked /\ RtParked /\ WsParked /\ IvParked /\ CcParked /\ LkParked /\ WtParked /\ ClParked /\ RmParked
InitMon == MonInit /\ RRParked /\ PxParked /\ LCParked /\ SvParked /\ StParked /\ RtParked /\ WsParked /\ IvParked /\ CcParked /\ LkParked /\ WtParked /\ ClParked /\ RmParked
InitLC == LCInit /\ RRParked /\ MonParked /\ PxParked /\ SvParked /\ StParked /\ RtParked /\ WsParked /\ IvParked /\ CcParked /\ LkParked /\ WtParked /\ ClParked /\ RmParked
InitSave == SvInit /\ RRParked /\ MonParked /\ PxParked /\ LCParked /\ StParked /\ RtParked /\ WsParked /\ IvParked /\ CcParked /\ LkParked /\ WtParked /\ ClParked /\ RmParked
InitStop == StInit /\ RRParked /\ MonParked /\ PxParked /\ LCParked /\ SvParked /\ RtParked /\ WsParked /\ IvParked /\ CcParked /\ LkParked /\ WtParked /\ ClParked /\ RmParked
InitStat == RtInit /\ RRParked /\ MonParked /\ PxParked /\ LCParked /\ SvParked /\ StParked /\ WsParked /\ IvParked /\ CcParked /\ LkParked /\ WtParked /\ ClParked /\ RmParked
InitWs ==
  WsInit /\ RRParked /\ MonParked /\ PxParked /\ LCParked /\ SvParked /\ StParked /\ RtParked
    /\ IvParked /\ CcParked /\ LkParked /\ WtParked /\ ClParked /\ RmParked
InitInv ==
  IvInit /\ RRParked /\ MonParked /\ PxParked /\ LCParked /\ SvParked /\ StParked /\ RtParked
    /\ WsParked /\ CcParked /\ LkParked /\ WtParked /\ ClParked /\ RmParked
InitCc ==
  CcInit /\ RRParked /\ MonParked /\ PxParked /\ LCParked /\ SvParked /\ StParked /\ RtParked
    /\ WsParked /\ IvParked /\ LkParked /\ WtParked /\ ClParked /\ RmParked
InitLk ==
  LkInit /\ RRParked /\ LCParked /\ PxParked /\ MonParked /\ SvParked /\ RtParked /\ WsParked /\ IvParked /\ CcParked /\ StParked /\ WtParked /\ ClParked /\ RmParked
InitWt ==
  WtInit /\ RRParked /\ LCParked /\ PxParked /\ MonParked /\ SvParked /\ RtParked /\ WsParked /\ IvParked /\ CcParked /\ LkParked /\ StParked /\ ClParked /\ RmParked
InitCl ==
  ClInit /\ RRParked /\ LCParked /\ PxParked /\ MonParked /\ SvParked /\ RtParked /\ WsParked /\ IvParked /\ CcParked /\ LkParked /\ WtParked /\ StParked /\ RmParked
InitRm ==
  RmInit /\ RRParked /\ LCParked /\ PxParked /\ MonParked /\ SvParked /\ RtParked /\ WsParked /\ IvParked /\ CcParked /\ LkParked /\ WtParked /\ ClParked /\ StParked
Init == PxInit /\ RRParked /\ MonParked /\ LCParked /\ SvParked /\ StParked /\ RtParked /\ WsParked /\ IvParked /\ CcParked /\ LkParked /\ WtParked /\ ClParked /\ RmParked

SpecRR == InitRR /\ [][RRNext]_vars
SpecMon == InitMon /\ [][MonNext]_vars
SpecLC == InitLC /\ [][LCNext]_vars
SpecSave == InitSave /\ [][SvNext]_vars
SpecStat == InitStat /\ [][RtNext]_vars
SpecRRRemove == InitRm /\ [][RmNext]_vars
SpecClose == InitCl /\ [][ClNext]_vars
SpecWatch == InitWt /\ [][WtNext]_vars
SpecLocks == InitLk /\ [][LkNext]_vars
SpecInv == InitInv /\ [][IvNext]_vars
SpecRRConcurrent == InitCc /\ [][CcNext]_vars

\* The relay with its scheduling: a goroutine whose io.Copy must end does end,
\* and ServeHTTP, once it can receive from errc, does.
SpecWsFair ==
  /\ InitWs /\ [][WsNext]_vars
  /\ \A w \in 1..MaxWs :
       /\ WF_vars(WsRelayEnds(w))
       /\ \A dir \in {"toA", "toB"} : WF_vars(WsCopyEnds(w, dir, TRUE))

\* The watchers with their scheduling: a goroutine that can run does, and a
\* select whose <-exit case is ready takes it sooner or later (Go chooses
\* among ready cases at random).
SpecStopFair ==
  /\ InitStop /\ [][StNext]_vars
  /\ WF_vars(StCloseBackend)
  /\ WF_vars(StSwapDone)
  /\ SF_vars(StConfigWatcherExit)
  /\ SF_vars(StInventoryWatcherExit)
  /\ \A i \in 1..MaxBackends : WF_vars(StMonitorExit(i))

\* The monitor with its scheduling: a probe in flight is answered (the health
\* client's dial times out), a select with a ready stop request takes it sooner
\* or later (Go chooses among ready cases at random), and a goroutine that can
\* run does.
SpecMonFair ==
  /\ InitMon /\ [][MonNext]_vars
  /\ WF_vars(\E o \in ProbeOutcomes : MonitorProbeDone(o))
  /\ SF_vars(MonitorStop)
  /\ WF_vars(BackendCloseReturn)
Next == PxNext
Spec == Init /\ [][Next]_vars

\* ------------------------------------------------------------------ claims

\* C1: on a freshly constructed round-robin balancer over N >= 1 backends that
\* have all stayed healthy, the k-th completed call (k = 0, 1, ...) returned the
\* backend at position k mod N.
C1_RoundRobinSequence ==
  (N >= 1 /\ stayedHealthy /\ rrPc = "idle" /\ calls >= 1)
    => ret = (calls - 1) % N

C1_Witness ==
  N >= 2 /\ stayedHealthy /\ rrPc = "idle" /\ calls > 2 * N /\ ret = (calls - 1) % N

\* C2: with N >= 1 backends that are all unhealthy and stay so, a Backend() call
\* has returned nil once it has examined N backends, whatever the cursor was.
C2_NilAfterOneCycle ==
  (N >= 1 /\ rrPc = "loop" /\ stayedUnhealthy) => examined < N

\* C3: a Healthy backend with a health URL turns unhealthy exactly in the cycle
\* whose probe is the 6th consecutive failure; after 5 or fewer it is still
\* Healthy, and a successful probe resets the failure count to 0.
C3_UnhealthyOnSixthFailure ==
  (HealthURL = "url" /\ monPc = "wait" /\ lastOutcome # NoProbe /\ wasHealthy)
    => /\ (Healthy <=> consec <= 5)
       /\ (~Healthy => (consec = 6 /\ ObservedFailure(lastOutcome)))
       /\ (~ObservedFailure(lastOutcome) => healthFailures = 0)
       /\ healthFailures = consec

C3_Witness ==
  HealthURL = "url" /\ monPc = "wait" /\ wasHealthy /\ ~Healthy /\ consec = 6

\* C4: an unhealthy backend turns Healthy in the first cycle whose probe
\* succeeds, however many failures preceded it, and never in a cycle whose
\* probe failed.
C4_HealthyOnFirstSuccess ==
  (HealthURL = "url" /\ monPc = "wait" /\ lastOutcome # NoProbe /\ ~wasHealthy)
    => (Healthy <=> ~ObservedFailure(lastOutcome))

C4_Witness ==
  HealthURL = "url" /\ monPc = "wait" /\ ~wasHealthy /\ Healthy /\ consecBefore >= 7
    /\ lastOutcome.StatusCode = 499

\* A request that has read both the configuration and a balancer.
ReadBoth(r) == reqs[r].pc \in {"chosen", "forwarding", "done", "spin"} /\ reqs[r].lb # Nil

C6_ConfigOnlyReloadKeepsBalancer ==
  [][(updPc = "swap1" /\ updPc' = "swap2"
        /\ pendingConf.InventoryFile = sConfig.InventoryFile)
       => (hBalancer' = hBalancer /\ lbs' = lbs /\ bes' = bes)]_vars

\* C7: a forward that started before its backend was closed is answered with
\* what the backend's transport answered, and no request is handed a backend
\* by a balancer that had been closed when it asked.
C7_InFlightCompletesAndNoStaleSelection ==
  \A r \in 1..MaxReq :
    /\ (reqs[r].pc = "done" /\ reqs[r].net # NoProbe /\ ~reqs[r].net.err)
         => reqs[r].status = reqs[r].net.StatusCode
    /\ (reqs[r].pc = "done" /\ reqs[r].net # NoProbe /\ reqs[r].net.err)
         => reqs[r].status = 503
    /\ reqs[r].be # Nil => ~reqs[r].staleLB
    /\ (reqs[r].pc = "conf" /\ hBalancer # Nil /\ Backend(lbs[hBalancer], bes).kind = "ok")
         => bes[lbs[hBalancer].inv[Backend(lbs[hBalancer], bes).idx + 1]].mon # "stopped"

\* A request answered 200 through a backend whose monitor had been stopped by
\* a swap to a balancer that does not hold the backend.
C7_Witness ==
  \E r \in 1..MaxReq :
    /\ reqs[r].pc = "done" /\ reqs[r].status = 200 /\ reqs[r].viaStopped
    /\ hBalancer # Nil /\ hBalancer # reqs[r].lb
    /\ \A i \in 1..Len(lbs[hBalancer].inv) : lbs[hBalancer].inv[i] # reqs[r].be

\* C8: a reload whose file differs from the live configuration in Bind, Https,
\* CertFile, KeyFile or WatchConfig returns an error, and Server.Config, the
\* handler's Config, the handler's balancer, the balancers and the backends are
\* after the attempt what they were before it.
C8_ImmutableChangeRejected ==
  [][(updPc = "idle" /\ updPc' # "idle" /\ lastImmutable')
       => (/\ updPc' = "log" /\ lastFailed'
           /\ sConfig' = sConfig /\ hConf' = hConf /\ hBalancer' = hBalancer
           /\ lbs' = lbs /\ bes' = bes)]_vars

\* The config watcher about to log the rejection of such a file, with the first
\* balancer installed and its monitors running.
C8_Witness ==
  /\ updPc = "log" /\ lastImmutable /\ lastFailed
  /\ sConfig = BaseConfig /\ hConf = BaseConfig
  /\ hBalancer = 1 /\ lbs[1].closed = 0
  /\ \A i \in 1..Len(lbs[1].inv) : bes[lbs[1].inv[i]].mon = "running"

\* C9: an inventory load that fails, in MonitorInventory or in UpdateConfig,
\* is followed by no SetBackends: the installed balancer, the balancers'
\* closed counts and the backends are unchanged, and the watcher goes on to log
\* the failure and wait for the next event.
C9_FailedLoadKeepsBalancer ==
  [][/\ (invPc = "select" /\ invPc' # "select" /\ ~invLoadOK')
          => (invPc' = "log" /\ hBalancer' = hBalancer /\ lbs' = lbs /\ bes' = bes)
     /\ (updPc = "idle" /\ updPc' # "idle" /\ ~lastLoadOK')
          => (/\ updPc' = "log" /\ lastFailed'
              /\ hBalancer' = hBalancer /\ lbs' = lbs /\ bes' = bes
              /\ sConfig' = sConfig /\ hConf' = hConf)
     /\ (invPc = "log" /\ invPc' # invPc) => invPc' = "select"
     /\ (updPc = "log" /\ updPc' # updPc) => updPc' = "idle"]_vars

\* MonitorInventory about to log a failed load after an earlier event was
\* applied: the balancer that event installed is installed, unclosed, and has
\* answered a request.
C9_Witness ==
  /\ invPc = "log" /\ ~invLoadOK
  /\ hBalancer = 2 /\ loads = 1 /\ reloads = 0 /\ lbs[hBalancer].closed = 0
  /\ \A i \in 1..Len(lbs[hBalancer].inv) : bes[lbs[hBalancer].inv[i]].mon = "running"
  /\ \E r \in 1..MaxReq : reqs[r].pc = "done" /\ reqs[r].lb = hBalancer /\ reqs[r].status = 200

\* C10: a balancer SetBackends has replaced was closed exactly once and every
\* monitor of its inventory has stopped; the installed balancer and one made
\* but not yet handed to SetBackends are unclosed; when SetBackends returns the
\* handler's balancer is the one it was given.
C10_PreviousClosedExactlyOnce ==
  /\ \A id \in 1..Len(lbs) :
       IF id = hBalancer \/ (id = pendingLB /\ updPc = "swap1")
         THEN lbs[id].closed = 0
         ELSE /\ lbs[id].closed = 1
              /\ \A i \in 1..Len(lbs[id].inv) : bes[lbs[id].inv[i]].mon = "stopped"
  /\ updPc = "swap2" => hBalancer = pendingLB

\* Two balancers, each replaced by a later SetBackends: both closed once.
C10_Witness ==
  /\ Len(lbs) = 2 /\ hBalancer = Nil /\ updPc = "idle"
  /\ lbs[1].closed = 1 /\ lbs[2].closed = 1
  /\ Len(lbs[2].inv) = 2
  /\ \A b \in 1..Len(bes) : bes[b].mon = "stopped"

\* C11: when least-connections Backend() has returned and neither health nor
\* in-flight counts have changed since it was called, it returned a healthy
\* backend whose in-flight count is at most that of every healthy backend if
\* some backend is healthy, and nil if none is.
C11_LeastConnPicksLeastLoadedHealthy ==
  lcPc = "returned" =>
    IF \E i \in 1..Len(lcHealthy) : lcHealthy[i]
      THEN /\ lcRet.kind = "ok"
           /\ lcRet.idx + 1 \in 1..Len(lcHealthy)
           /\ lcHealthy[lcRet.idx + 1]
           /\ \A j \in 1..Len(lcHealthy) :
                lcHealthy[j] => lcConns[lcRet.idx + 1] <= lcConns[j]
      ELSE lcRet.kind = "nil" /\ lcRet.idx = Nil

\* The unhealthy first backend has the lowest count and one of the healthy
\* others was returned.
C11_Witness ==
  /\ lcPc = "returned" /\ Len(lcHealthy) = 3
  /\ ~lcHealthy[1] /\ lcHealthy[2] /\ lcHealthy[3]
  /\ lcConns = <<0, 2, 1>>
  /\ lcRet.kind = "ok" /\ lcRet.idx = 2

\* Exactly the backend at position u (1-based) is unhealthy.
OnlyUnhealthy(u) ==
  /\ N >= 2 /\ u \in 1..N /\ ~healthy[u]
  /\ \A i \in 1..N : i # u => healthy[i]

\* C12: with N >= 2 backends of which exactly the one at position u is
\* unhealthy, and no health change since the call began, a completed Backend()
\* returned the position the cursor stood at, or the next one if that was u:
\* never u, never nil, and the cursor is left just behind the returned
\* position, so successive calls go round the other N-1 backends in order.
C12_RoundRobinSkipsUnhealthy ==
  \A u \in 1..N :
    (rrPc = "idle" /\ quiet /\ calls >= 1 /\ OnlyUnhealthy(u)) =>
      /\ ret # Nil
      /\ ret # u - 1
      /\ ret = (IF first % N = u - 1 THEN (first + 1) % N ELSE first % N)
      /\ next = ret + 1

\* The call that would have returned the unhealthy middle backend of three
\* returned the last one instead, after the cursor had been round once.
C12_Witness ==
  /\ N = 3 /\ OnlyUnhealthy(2) /\ rrPc = "idle" /\ quiet /\ calls > 3
  /\ first % N = 1 /\ ret = 2 /\ examined = 2

\* C13 (as stated, round robin): over an inventory with zero backends a
\* Backend() call does not crash; it returns nil.
C13_EmptyInventoryReturnsNil ==
  N = 0 => (rrPc # "panic" /\ (rrPc = "loop" => examined < 1))

\* C14 (as stated): every Close() that has begun its stop handshake returns,
\* whatever the monitor is doing or has done.
C14_CloseEventuallyReturns == (closePc = "sending") ~> (closePc = "none")

\* C15: a Close() called while b.closeMonitor is nil (after an earlier Close()
\* has returned, or on a backend made with health checks disabled) returns at
\* once: no stop request is sent, the monitor and the channel field are left
\* as they are, nothing panics.
C15_SecondCloseIsNoOp ==
  [][(closeCalls' = closeCalls + 1 /\ closeMonitor = "nil")
       => (closePc' = "none" /\ monPc' = monPc /\ closeMonitor' = "nil"
           /\ monPc' # "panic")]_vars

\* A second Close() has returned on a backend whose monitor the first stopped.
C15_Witness ==
  closeCalls = 2 /\ closePc = "none" /\ closeMonitor = "nil" /\ monPc = "stopped"

\* C16: a SaveDroplets call made once shutdown has begun returns the
\* "shutting down" error in its first step, holding no lock, and the target
\* file is what it was: not created, not truncated, not written.
C16_SaveRefusedDuringShutdown ==
  [][\A p \in 1..MaxSavers :
       (savePc[p] = "idle" /\ savePc'[p] # "idle" /\ svStage # "running")
         => (/\ savePc'[p] = "returned"
             /\ saveErr'[p] # ""
             /\ fileState' = fileState
             /\ svLocks' = svLocks)]_vars

\* A refused caller has returned while nobody has touched the missing file.
C16_Witness ==
  /\ svStage = "requested" /\ fileState = "absent"
  /\ \E p \in 1..MaxSavers :
       /\ savePc[p] = "returned"
       /\ saveErr[p] = "Unable to save inventory - server is shutting down."

\* C17: the granted locks are exactly those of the callers inside SaveDroplets
\* (a caller that has returned, with or without an error, holds none), and the
\* process has not terminated while a lock was held unless the timeout had
\* elapsed.
C17_SaveNotCutOffAndLockReleased ==
  /\ svLocks = Cardinality({p \in 1..MaxSavers :
                              savePc[p] \in {"locked", "marshalled", "created"}})
  /\ svStage = "exited" => (svLocks = 0 \/ svTimedOut)

\* Shutdown began while a Save held the lock, the Save failed in its write and
\* returned, and the process terminated before the timeout.
C17_Witness ==
  /\ svStage = "exited" /\ ~svTimedOut /\ svWaited /\ svLocks = 0
  /\ \E p \in 1..MaxSavers : savePc[p] = "returned" /\ saveErr[p] = "write"

\* C18 (as stated): once the first-stage notification is delivered both
\* watchers acknowledge it and terminate.
C18_WatchersAcknowledgeAndTerminate ==
  (stStage = "first") ~> (stCfg = "exited" /\ stInv = "exited")

\* C19: a request to which Backend() returned nil is answered with status 503
\* and the fixed plaintext body, and is forwarded to no backend.
C19_NoBackendAnswered503 ==
  \A r \in 1..MaxReq :
    reqs[r].got = "nil" =>
      /\ reqs[r].pc = "done"
      /\ reqs[r].status = 503
      /\ reqs[r].body = "No healthy backend available :("
      /\ reqs[r].be = Nil
      /\ reqs[r].sends = 0
      /\ reqs[r].net = NoProbe

C19_Witness ==
  \E r \in 1..MaxReq : reqs[r].got = "nil" /\ reqs[r].pc = "done" /\ reqs[r].status = 503

\* C20: a transport error on the non-upgrade path is answered with status 503
\* and the fixed body, without a retry: for a request Backend() is called once
\* and at most one transport invocation is made.
C20_TransportErrorAnswered503NoRetry ==
  \A r \in 1..MaxReq :
    /\ reqs[r].picks <= 1
    /\ reqs[r].sends <= 1
    /\ (reqs[r].pc \in {"chosen", "forwarding", "done"} => reqs[r].picks = 1)
    /\ (reqs[r].net.err =>
          /\ reqs[r].pc = "done"
          /\ reqs[r].status = 503
          /\ reqs[r].body = "Error processing request."
          /\ reqs[r].picks = 1
          /\ reqs[r].sends = 1)

C20_Witness ==
  \E r \in 1..MaxReq :
    reqs[r].net.err /\ reqs[r].pc = "done" /\ reqs[r].status = 503 /\ reqs[r].sends = 1

\* C21: a backend without a health URL is probed by no monitor cycle, its
\* failure counter is 0 in every state and it is Healthy after every cycle: the
\* monitor never marks it unhealthy.
C21_NoHealthURLAlwaysHealthy ==
  HealthURL = "" =>
    /\ healthFailures = 0
    /\ monPc # "probing"
    /\ lastOutcome = NoProbe
    /\ Healthy
    /\ \A h \in BOOLEAN : AfterCheck(TRUE, healthFailures) /\ ~MarkUnhealthy(h, healthFailures)

C21_Witness ==
  HealthURL = "" /\ monPc = "wait" /\ cycled /\ Healthy /\ healthFailures = 0

\* C22: whatever the interleaving of completions and monitor cycles, what the
\* completed requests added to the window (count, latency, errors) is what the
\* cycles have read plus what the window holds: nothing is read by two cycles,
\* nothing is dropped; and the window's counters are reset by the monitor only.
C22_EveryRequestInOneCycle ==
  /\ [](/\ rtDone.requests = rtFolded.requests + statRT.requests
        /\ rtDone.errors = rtFolded.errors + statRT.errors
        /\ rtDone.latencySum = rtFolded.latencySum + statRT.latencySum
        /\ rtDone.requests + Cardinality({c \in 1..MaxCallers : rtCall[c].pc = "inflight"})
             = rtDispatched)
  /\ [][(statRT'.requests < statRT.requests \/ statRT'.errors < statRT.errors
           \/ rtFolded' # rtFolded)
          => (rtCycles' = rtCycles + 1 /\ rtCall' = rtCall)]_vars

C22_Witness ==
  /\ rtCycles = 2
  /\ rtFolded.requests >= 2
  /\ rtFolded.errors >= 1
  /\ statRT.requests = 1

\* C23: the in-flight gauge s.running equals the number of RoundTrip calls
\* dispatched and not yet completed; it is never negative and is 0 whenever no
\* call is in flight, whether calls ended with a response or with an error.
C23_GaugeCountsInFlight ==
  /\ statRT.running = Cardinality({c \in 1..MaxCallers : rtCall[c].pc = "inflight"})
  /\ statRT.running = rtDispatched - rtDone.requests
  /\ statRT.running >= 0

C23_Witness ==
  /\ statRT.running = 0
  /\ \E c, d \in 1..MaxCallers :
       /\ rtCall[c].pc = "returned" /\ rtCall[c].err
       /\ rtCall[d].pc = "returned" /\ ~rtCall[d].err
  /\ rtDone.requests = MaxDispatch

\* C24: a completed RoundTrip adds one to the window's request count, and one
\* to its error count exactly when the transport returned an error or the
\* status is >= 500; a response with such a status is returned with no error;
\* 0 <= errors <= requests in every state.
C24_ErrorsCountedOnce ==
  /\ [](/\ 0 <= statRT.errors
        /\ statRT.errors <= statRT.requests
        /\ \A c \in 1..MaxCallers :
             (rtCall[c].pc = "returned" /\ ~rtCall[c].o.err) =>
               (~rtCall[c].err /\ rtCall[c].resp = rtCall[c].o))
  /\ [][\A c \in 1..MaxCallers :
          (rtCall[c].pc = "inflight" /\ rtCall'[c].pc = "returned") =>
            /\ statRT'.requests = statRT.requests + 1
            /\ statRT'.errors = statRT.errors
                 + (IF rtCall'[c].o.err \/ rtCall'[c].o.StatusCode >= 500 THEN 1 ELSE 0)]_vars

C24_Witness ==
  /\ statRT.requests = 3
  /\ statRT.errors = 2
  /\ \E c \in 1..MaxCallers :
       rtCall[c].pc = "returned" /\ rtCall[c].resp.StatusCode = 500 /\ ~rtCall[c].err

\* C25: once the first of the two copy directions of a websocket relay has
\* finished, or either peer has closed its end, ServeHTTP returns and both the
\* client connection and the backend connection are closed.
C25_RelayEndsWithFirstDirection ==
  \A w \in 1..MaxWs :
    (ws[w].pc = "relay"
       /\ (ws[w].toA = "done" \/ ws[w].toB = "done" \/ ws[w].eofA \/ ws[w].eofB))
      ~> (ws[w].pc = "returned" /\ ws[w].a = "closed" /\ ws[w].b = "closed")

C25_Witness ==
  \E w \in 1..MaxWs :
    /\ ws[w].pc = "returned" /\ ws[w].a = "closed" /\ ws[w].b = "closed"
    /\ ws[w].toA = "running" /\ ws[w].toB = "done"
    /\ ws[w].eofA /\ ~ws[w].eofB

\* C26: ReadInventory of a file SaveDroplets wrote from an inventory of droplet
\* backends returns as many backends in the same order, each with the same ID,
\* name, addresses, forwarding host and health URL, and a start time equal to
\* the millisecond.
C26_SaveThenReadRoundTrip ==
  (/\ ivOp.op = "ReadInventory"
   /\ ivFile.kind = "toml"
   /\ \A i \in 1..Len(ivAtSave) : ivAtSave[i].kind = "droplet") =>
    /\ ~ivLoaded.err
    /\ Len(ivLoaded.backends) = Len(ivAtSave)
    /\ \A i \in 1..Len(ivAtSave) :
         LET was == ivAtSave[i].Droplet
             got == ivLoaded.backends[i].Droplet
         IN /\ ivLoaded.backends[i].kind = "droplet"
            /\ got.ID = was.ID /\ got.Name = was.Name
            /\ got.PublicIP = was.PublicIP /\ got.PrivateIP = was.PrivateIP
            /\ got.ServerHost = was.ServerHost /\ got.HealthURL = was.HealthURL
            /\ got.Started \div TicksPerMs = was.Started \div TicksPerMs

C26_Witness ==
  /\ ivOp.op = "ReadInventory" /\ ivFile.kind = "toml" /\ ~ivLoaded.err
  /\ Len(ivAtSave) = 2 /\ Len(ivLoaded.backends) = 2
  /\ \A i \in 1..Len(ivAtSave) : ivAtSave[i].kind = "droplet"
  /\ ivAtSave[1].Droplet.ID # ivAtSave[2].Droplet.ID
  /\ \E i \in 1..2 : ivLoaded.backends[i].Droplet.Started # ivAtSave[i].Droplet.Started

\* C27: Remove(id) on an inventory without a backend of that ID returns an
\* error and leaves the backends as they are; otherwise it returns no error and
\* takes out the first backend of that ID, the others keeping their order.
C27_RemoveFirstOrNotFound ==
  [][ivOp'.op = "Remove" =>
      LET id == ivOp'.id
          hits == {j \in 1..Len(ivBackends) : BackendID(ivBackends[j]) = id}
      IN IF hits = {}
           THEN ivOp'.err /\ ivBackends' = ivBackends
           ELSE /\ ~ivOp'.err
                /\ Len(ivBackends') = Len(ivBackends) - 1
                /\ \E j \in hits :
                     /\ \A k \in hits : j <= k
                     /\ \A k \in 1..Len(ivBackends') :
                          ivBackends'[k] = IF k < j THEN ivBackends[k] ELSE ivBackends[k + 1]]_vars

C27_Witness ==
  /\ ivOp.op = "Remove" /\ ~ivOp.err /\ ivOp.id = 1
  /\ Len(ivBackends) = 1 /\ BackendID(ivBackends[1]) = 1
  /\ Len(ivGone) = 1 /\ ivGone[1] # ivBackends[1]

\* C28 (as stated): the monitor of a backend Remove(id) has taken out of the
\* inventory is stopped.
C28_RemovedBackendIsClosed ==
  (ivOp.op = "Remove" /\ ~ivOp.err) =>
    \A i \in 1..Len(ivGone) : ivGone[i].mon # "running"

\* C29: ReadInventory of a file that cannot be opened or parsed returns an
\* error and no inventory; no Backend is constructed and no monitor started for
\* any record the file holds.
C29_FailedReadBuildsNothing ==
  (ivOp.op = "ReadInventory" /\ ivFile.kind # "toml") =>
    /\ ivOp.err
    /\ ivLoaded.err
    /\ ivLoaded.backends = <<>>
    /\ ivOp.made = 0
    /\ ivOp.started = 0

C29_Witness ==
  /\ ivOp.op = "ReadInventory" /\ ivLoaded.err
  /\ ivFile.kind = "garbage" /\ Len(ivFile.recs) = 2
  /\ ~ivHealthOff

\* C30: K <= N concurrent round-robin Backend() calls over N backends that stay
\* healthy are serialised by r.mu: no two calls read the same cursor value, the
\* calls return distinct backends at consecutive cyclic positions, and the
\* cursor has moved K positions on when all have returned.
C30_ConcurrentCallsSerialised ==
  LET inside == {c \in 1..ccK : ccCall[c].pc \in {"locked", "read"}}
      seen == {c \in 1..ccK : ccCall[c].pc \in {"read", "returned"}}
      done == {c \in 1..ccK : ccCall[c].pc = "returned"}
  IN /\ Cardinality(inside) <= 1
     /\ \A c, d \in seen : c # d => ccCall[c].first # ccCall[d].first
     /\ \A c, d \in done : c # d => ccCall[c].ret # ccCall[d].ret
     /\ {ccCall[c].ret : c \in done} =
          {(ccStart + j) % ccN : j \in 0..(Cardinality(done) - 1)}
     /\ ccNext % ccN = (ccStart + Cardinality(done)) % ccN

C30_Witness ==
  /\ ccN = MaxBackends /\ ccK = ccN /\ ccStart = 2
  /\ \A c \in 1..ccK : ccCall[c].pc = "returned"
  /\ ccCall[1].ret = 0 /\ ccCall[2].ret = 2

C32_ReloadInstallsNewStrategy ==
  (updPc = "log" /\ ~lastFailed /\ hBalancer # Nil)
    => lbs[hBalancer].Type = sConfig.LoadBalancing

\* The healthy backends whose in-flight count is the least among the healthy.
LeastLoadedHealthy ==
  {i \in 1..Len(lcHealthy) :
     /\ lcHealthy[i]
     /\ \A j \in 1..Len(lcHealthy) : lcHealthy[j] => lcConns[i] <= lcConns[j]}

\* C33: when least-connections Backend() has returned a backend, with health
\* and in-flight counts as they were during the call, no healthy backend with
\* the same minimal count stands at a lower inventory index than the one
\* returned.
C33_TieGoesToLowestIndex ==
  (lcPc = "returned" /\ LeastLoadedHealthy # {}) =>
    /\ lcRet.idx + 1 \in LeastLoadedHealthy
    /\ \A i \in LeastLoadedHealthy : lcRet.idx + 1 <= i

\* Backends 2 and 3 are healthy and tied behind an unhealthy idle one; the
\* one at index 1 (the second) was returned.
C33_Witness ==
  /\ lcPc = "returned" /\ Len(lcHealthy) = 3
  /\ ~lcHealthy[1] /\ lcHealthy[2] /\ lcHealthy[3]
  /\ lcConns = <<0, 1, 1>>
  /\ lcRet.kind = "ok" /\ lcRet.idx = 1

\* C34: the latency sum of the window is never negative, and neither is the
\* total of the latencies RoundTrip has added to it.
C34_LatencySumNonNegative ==
  /\ statRT.latencySum >= 0
  /\ rtDone.latencySum >= 0

\* C35: the watcher's step for a Remove event reloads nothing and leaves the
\* installed backends as they were, and after its step for a Rename event the
\* path it was started with is under watch.
C35_RemoveIgnoredRenameRewatched ==
  /\ [](wtLast.Op = "Remove" => ~wtLast.reloaded)
  /\ [](wtLast.Op = "Rename" => wtFile \in wtWatched)
  /\ [][(wtEvents # <<>> /\ Head(wtEvents).Op = "Remove" /\ wtEvents' = Tail(wtEvents))
          => UNCHANGED <<wtInstalledFrom, wtConfigPath>>]_vars

\* C36: an event that arose on a file while the live Config named another
\* inventory file does not make the watcher install backends read from the
\* file of the event.
C36_BackendsFromConfiguredFile ==
  (wtLast.reloaded /\ wtLast.conf = wtConfigPath) => wtLast.Name = wtConfigPath

\* C37: of the goroutines that call Close() on one backend, none panics, none
\* is left in a send that can never be taken (on a nil channel, or on the
\* channel of a monitor that has returned), and the monitor is stopped at most
\* once.
C37_ConcurrentCloseReturns ==
  /\ \A c \in 1..MaxClosers : clPc[c] # "panicked"
  /\ \A c \in 1..MaxClosers :
       clPc[c] = "sending" => (clOn[c] = "chan" /\ clMon # "returned")
  /\ clStops <= 1

\* C38: a round-robin Backend() that runs while Remove shrinks the bound
\* inventory never indexes beyond the backend sequence, and what it returns
\* was not removed before the call began.
C38_SelectionConsistentWithRemove ==
  /\ rmPc # "panicked"
  /\ rmPc = "returned" => rmRet \notin rmGoneAtCall

\* The backend stands first, idle, in an inventory before a healthy busy one:
\* neither strategy returns it, wherever the round-robin cursor is.
PassedOver ==
  /\ \A c \in 0..2 : rrLoop(<<Healthy, TRUE>>, c, c, 0).idx # 0
  /\ lcScan(<<Healthy, TRUE>>, <<0, 1>>, 1, Nil, MaxInt32).idx # 0

\* C39: a backend with a health URL starts unhealthy; Stats.Healthy turns true
\* only in the step that completes a probe which succeeded; while it is false
\* no strategy returns the backend; and with health checks disabled (no
\* monitor) it is unhealthy in every state.
C39_UnhealthyUntilProbeSucceeds ==
  /\ (HealthURL # "" => ~Healthy)
  /\ [][(HealthURL # "" /\ ~Healthy /\ Healthy')
          => (monPc = "probing" /\ ~ObservedFailure(lastOutcome'))]_vars
  /\ [](~Healthy => PassedOver)
  /\ []((HealthURL # "" /\ monPc = "none") => ~Healthy)

\* Two probes of a backend with a health URL have failed since it was made or
\* last healthy; it is unhealthy and passed over.
C39_Witness ==
  /\ HealthURL = "url" /\ monPc = "wait" /\ ~Healthy /\ ~wasHealthy
  /\ healthFailures = 2 /\ ObservedFailure(lastOutcome) /\ PassedOver

\* C40: neither copy goroutine of a websocket relay ever waits in its send on
\* errc, and once ServeHTTP has returned from a relay both copy goroutines
\* come to their end.
C40_OtherCopyTerminates ==
  /\ \A w \in 1..MaxWs : [](Sending(ws[w]) = {})
  /\ \A w \in 1..MaxWs :
       (ws[w].pc = "returned" /\ ws[w].toA # "none")
         ~> (ws[w].toA = "done" /\ ws[w].toB = "done")

\* ServeHTTP has returned, both directions have ended without either peer
\* closing its end, and the later result lies in errc unreceived.
C40_Witness ==
  \E w \in 1..MaxWs :
    /\ ws[w].pc = "returned" /\ ws[w].toA = "done" /\ ws[w].toB = "done"
    /\ ws[w].errc = 1 /\ ~ws[w].eofA /\ ~ws[w].eofB

====
